------------------------------ MODULE Spec2Model ------------------------------
(***************************************************************************)
(* Model of the install-size comparison logic of npmx:                     *)
(*   - getComparisonVersion / comparisonVersion (version selector),        *)
(*   - useInstallSizeDiff (comparison fetch, watcher, diff computation).   *)
(*                                                                         *)
(* Strings are modelled as records (Str below): a string is either the     *)
(* text of a semantic version (its parsed fields) or some other word.      *)
(* JavaScript's null/undefined is the string-shaped value NULL and a       *)
(* thrown TypeError is the value TypeError, so that an operation's outcome *)
(* is always one value of one shape.                                       *)
(***************************************************************************)
EXTENDS Integers, Sequences, FiniteSets, TLC

VARIABLES
    \* --- useInstallSizeDiff on the package page --------------------------
    client,                 \* import.meta.client
    packageName,            \* toValue(packageName)
    resolvedVersion,        \* toValue(resolvedVersion), NULL when unresolved
    pkg,                    \* toValue(pkg), NoPackument when not loaded
    installSize,            \* toValue(currentInstallSize), NoResult when absent
    comparisonInstallSize,  \* data of the comparison fetch, NoResult when null
    comparisonStatus,       \* status of the comparison fetch
    inflight,               \* comparison requests issued and not yet settled
    comparisonDataFrom,     \* the request comparisonInstallSize answers
    \* --- version selector, read as a pure function of pkg and
    \*     resolvedVersion ---------------------------------------------------
    cvResult,       \* what the read produced (a string, NULL or TypeError)
    cvPhase,        \* "input" before the read, "done" after it, else "off"
    \* --- diff, read as a pure function of its inputs ---------------------
    dfResult,       \* what reading diff.value produced
    dfPhase,        \* "input" before the read, "done" after it, else "off"
    \* --- calculateInstallSize, as a pure function of its arguments and of
    \*     the resolved tree -------------------------------------------------
    calcName,       \* the argument `name`
    calcVersion,    \* the argument `version`
    resolvedTree,   \* what resolveDependencyTree(name, version) returned
    calcResult,     \* the InstallSizeResult returned
    calcPhase,      \* "input" before the call, "done" after it, else "off"
    \* --- the like button of the package page ------------------------------
    userHandle,          \* user.value?.handle, NULL when nobody is signed in
    authModalOpen,       \* the auth modal is open
    likesData,           \* likesData.value
    isLikeActionPending, \* isLikeActionPending.value
    toggleCalls,         \* the togglePackageLike calls awaited, oldest first
    likeEvent,           \* the handler that ran last
    resultData,          \* result.data of the last call that succeeded
    \* --- the versions list of the package page: expanding and loading ------
    expandedTags,          \* expandedTags.value
    loadingTags,           \* loadingTags.value
    otherVersionsExpanded, \* otherVersionsExpanded.value
    otherVersionsLoading,  \* otherVersionsLoading.value
    expandedMajorGroups,   \* expandedMajorGroups.value
    allVersionsCache,      \* allVersionsCache.value, NoList while null
    loadingVersions,       \* loadingVersions.value
    hasLoadedAll,          \* hasLoadedAll.value
    expandCalls,           \* the expand calls awaiting loadAllVersions
    processedVersions,     \* the list processLoadedVersions ran on last
    returnedLists,         \* the lists loadAllVersions has returned so far
    \* --- the versions list of the package page: rows and groups -----------
    distTags,              \* props.distTags, its entries in insertion order
    versions,              \* props.versions, its entries in insertion order
    semverFilter,          \* semverFilter.value
    allVersions,           \* the argument of the last processLoadedVersions
    tagVersions,           \* tagVersions.value, its entries in insertion order
    otherMajorGroups       \* otherMajorGroups.value

pageVars == <<client, packageName, resolvedVersion, pkg, installSize,
              comparisonInstallSize, comparisonStatus, inflight,
              comparisonDataFrom>>

cvVars == <<cvResult, cvPhase>>

dfVars == <<dfResult, dfPhase>>

calcVars == <<calcName, calcVersion, resolvedTree, calcResult, calcPhase>>

likeVars == <<userHandle, authModalOpen, likesData, isLikeActionPending,
              toggleCalls, likeEvent, resultData>>

versVars == <<expandedTags, loadingTags, otherVersionsExpanded,
              otherVersionsLoading, expandedMajorGroups, allVersionsCache,
              loadingVersions, hasLoadedAll, expandCalls, processedVersions,
              returnedLists>>

procVars == <<distTags, versions, semverFilter, allVersions, tagVersions,
              otherMajorGroups>>

vars == <<pageVars, cvVars, dfVars, calcVars, likeVars, versVars, procVars>>

-----------------------------------------------------------------------------
(* Strings                                                                  *)

\* A prerelease identifier: numeric (alpha = FALSE, v its value) or
\* alphanumeric (alpha = TRUE, v its rank in ASCII order among the words used).
Ident(alpha, v) == [alpha |-> alpha, v |-> v]

Str(kind, major, minor, patch, pre, word) ==
    [kind |-> kind, major |-> major, minor |-> minor, patch |-> patch,
     pre |-> pre, word |-> word]

\* The text "major.minor.patch" or "major.minor.patch-pre".
Ver(major, minor, patch, pre) == Str("semver", major, minor, patch, pre, "")

\* A string that is not the text of a semantic version.
Word(w) == Str("word", 0, 0, 0, <<>>, w)

\* null / undefined
NULL == Str("null", 0, 0, 0, <<>>, "")

\* the outcome "a TypeError was thrown"
TypeError == Str("throw", 0, 0, 0, <<>>, "TypeError")

-----------------------------------------------------------------------------
(* The semver functions the selector imports                                *)

\* semver.valid(v): the parsed version, or null when v does not parse.
valid(v) == IF v.kind = "semver" THEN v ELSE NULL

\* semver.prerelease(v): the prerelease identifiers, or null when v does not
\* parse or has none.  Returned here as "is the result non-null".
prerelease(v) == IF v.kind = "semver" /\ Len(v.pre) > 0 THEN v.pre ELSE <<>>

IsPrerelease(v) == prerelease(v) # <<>>

\* semver compareIdentifiers: numeric before alphanumeric, numbers by value,
\* words in ASCII order.
compareIdentifiers(a, b) ==
    IF a.alpha = b.alpha
    THEN (IF a.v = b.v THEN 0 ELSE IF a.v < b.v THEN -1 ELSE 1)
    ELSE (IF a.alpha THEN 1 ELSE -1)

RECURSIVE comparePre(_, _, _)
comparePre(a, b, i) ==
    IF i > Len(a) /\ i > Len(b) THEN 0
    ELSE IF i > Len(b) THEN 1
    ELSE IF i > Len(a) THEN -1
    ELSE IF compareIdentifiers(a[i], b[i]) # 0 THEN compareIdentifiers(a[i], b[i])
    ELSE comparePre(a, b, i + 1)

Sign(x, y) == IF x = y THEN 0 ELSE IF x < y THEN -1 ELSE 1

\* semver.compare(a, b) on two strings that parse: main version first, then
\* a version without prerelease after every prerelease of it.
compare(a, b) ==
    IF a.major # b.major THEN Sign(a.major, b.major)
    ELSE IF a.minor # b.minor THEN Sign(a.minor, b.minor)
    ELSE IF a.patch # b.patch THEN Sign(a.patch, b.patch)
    ELSE IF Len(a.pre) = 0 /\ Len(b.pre) = 0 THEN 0
    ELSE IF Len(a.pre) = 0 THEN 1
    ELSE IF Len(b.pre) = 0 THEN -1
    ELSE comparePre(a.pre, b.pre, 1)

-----------------------------------------------------------------------------
(* Array helpers                                                            *)

\* mutant: the comparator with its arguments swapped (a descending sort)
sortComparatorDescending(a, b) == compare(b, a)

\* The comparator handed to sort: (a, b) => compare(a, b).
sortComparator(a, b) == compare(a, b)

\* Array.prototype.sort with that comparator.  The sort is stable: each
\* element goes after the last element that does not compare greater.
RECURSIVE InsertSorted(_, _)
InsertSorted(s, x) ==
    IF s = <<>> THEN <<x>>
    ELSE IF sortComparator(s[Len(s)], x) <= 0 THEN Append(s, x)
    ELSE Append(InsertSorted(SubSeq(s, 1, Len(s) - 1), x), s[Len(s)])

RECURSIVE sort(_)
sort(s) ==
    IF s = <<>> THEN <<>>
    ELSE InsertSorted(sort(SubSeq(s, 1, Len(s) - 1)), s[Len(s)])

\* JavaScript arrays count from 0: At(s, i) is s[i].
At(s, i) == s[i + 1]

\* Array.prototype.indexOf: the first i with s[i] === x, -1 when there is none.
RECURSIVE IndexFrom(_, _, _)
IndexFrom(s, x, i) ==
    IF i >= Len(s) THEN -1
    ELSE IF At(s, i) = x THEN i
    ELSE IndexFrom(s, x, i + 1)

indexOf(s, x) == IndexFrom(s, x, 0)

Range(s) == {s[i] : i \in 1..Len(s)}

(***************************************************************************)
(* Packuments                                                               *)
(* A packument is [name, latest, hasTime, time]:                            *)
(*   latest  : pkg['dist-tags']?.latest, NULL when dist-tags or the tag is  *)
(*             missing;                                                     *)
(*   hasTime : FALSE when pkg.time is undefined;                            *)
(*   time    : the keys of pkg.time as a sequence without repetition,       *)
(*             ordered by their timestamps (time[i] was published i-th).    *)
(***************************************************************************)

Packument(name, latest, hasTime, time) ==
    [name |-> name, latest |-> latest, hasTime |-> hasTime, time |-> time]

\* the computed's `!pkgVal` test: no packument has been loaded
NoPackument == Packument("", NULL, FALSE, <<>>)

\* mutant: the filter without its prerelease test
IsStableKeyKeepingPrereleases(v) ==
    /\ v # Word("modified")
    /\ v # Word("created")
    /\ valid(v) # NULL

\* .filter(v => v !== 'modified' && v !== 'created' && valid(v) !== null
\*              && prerelease(v) === null)
IsStableKey(v) ==
    /\ v # Word("modified")
    /\ v # Word("created")
    /\ valid(v) # NULL
    /\ ~IsPrerelease(v)

\* Object.keys(pkg.time).filter(...).sort(...)
StableVersions(packument) == sort(SelectSeq(packument.time, IsStableKey))

\* mutant: the lowest stable version instead of the predecessor
PreviousOfLowest(stableVersions, resolved) ==
    LET currentIdx == indexOf(stableVersions, resolved)
    IN  IF currentIdx <= 0 THEN NULL ELSE At(stableVersions, 0)

\* the stable branch after the sort: indexOf, the <= 0 test, the predecessor
PreviousOf(stableVersions, resolved) ==
    LET currentIdx == indexOf(stableVersions, resolved)
    IN  IF currentIdx <= 0 THEN NULL ELSE At(stableVersions, currentIdx - 1)

\* mutant: the prerelease branch without the self-comparison test
LatestTagForAllowingSelf(packument, resolved) ==
    IF packument.latest = NULL \/ packument.latest = Word("")
    THEN NULL
    ELSE packument.latest

\* the prerelease branch
LatestTagFor(packument, resolved) ==
    IF packument.latest = NULL \/ packument.latest = Word("") \/ packument.latest = resolved
    THEN NULL
    ELSE packument.latest

getComparisonVersion(packument, resolved) ==
    IF IsPrerelease(resolved)
    THEN LatestTagFor(packument, resolved)
    ELSE IF ~packument.hasTime THEN TypeError   \* Object.keys(undefined) throws
    ELSE PreviousOf(StableVersions(packument), resolved)

\* the computed `comparisonVersion` of useInstallSizeDiff
comparisonVersionOf(pkgVal, version) ==
    IF pkgVal = NoPackument \/ version = NULL \/ version = Word("") THEN NULL
    ELSE getComparisonVersion(pkgVal, version)

(***************************************************************************)
(* Install-size results and the diff                                        *)
(* A result carries the fields the diff reads: package, version, totalSize  *)
(* and dependencyCount.  Numbers are exact: sizeRatio is the rational       *)
(* num/den, which orders against 0.25 as the double does for every byte     *)
(* count below 2^53; den = 0 stands for the non-finite quotient x/0.        *)
(***************************************************************************)

Result(package, version, totalSize, dependencyCount) ==
    [package |-> package, version |-> version, totalSize |-> totalSize,
     dependencyCount |-> dependencyCount]

\* null: nothing fetched
NoResult == Result("", NULL, 0, 0)

\* the request /api/registry/install-size/<package>/v/<version>
Request(package, version) == [package |-> package, version |-> version]

NoRequest == Request("", NULL)

RequestOf(result) == Request(result.package, result.version)

Rational(num, den) == [num |-> num, den |-> den]

\* a > b for rationals with positive denominators
RatGreater(a, b) == a.num * b.den > b.num * a.den

RatEqual(a, b) == a.num * b.den = b.num * a.den

\* const SIZE_INCREASE_THRESHOLD = 0.25
SIZE_INCREASE_THRESHOLD == Rational(1, 4)

\* const DEP_INCREASE_THRESHOLD = 5
DEP_INCREASE_THRESHOLD == 5

\* mutant: the quotient without the guard on a zero previous size
sizeRatioOfUnguarded(current, previous) ==
    Rational(current.totalSize - previous.totalSize, previous.totalSize)

\* previous.totalSize > 0 ? (current.totalSize - previous.totalSize) / previous.totalSize : 0
sizeRatioOf(current, previous) ==
    IF previous.totalSize > 0
    THEN Rational(current.totalSize - previous.totalSize, previous.totalSize)
    ELSE Rational(0, 1)

\* mutant: the difference with its operands swapped
depDiffOfSwapped(current, previous) == previous.dependencyCount - current.dependencyCount

\* current.dependencyCount - previous.dependencyCount
depDiffOf(current, previous) == current.dependencyCount - previous.dependencyCount

\* sizeRatio > SIZE_INCREASE_THRESHOLD
sizeThresholdExceededOf(sizeRatio) == RatGreater(sizeRatio, SIZE_INCREASE_THRESHOLD)

\* mutant: >= in place of >
depThresholdExceededOfInclusive(depDiff) == depDiff >= DEP_INCREASE_THRESHOLD

\* depDiff > DEP_INCREASE_THRESHOLD
depThresholdExceededOf(depDiff) == depDiff > DEP_INCREASE_THRESHOLD

\* the sizes and the dependency counts of a diff
DiffSizes(sizeRatio, sizeIncrease, currentSize, previousSize) ==
    [sizeRatio |-> sizeRatio, sizeIncrease |-> sizeIncrease,
     currentSize |-> currentSize, previousSize |-> previousSize]

DiffDeps(depDiff, currentDeps, previousDeps) ==
    [depDiff |-> depDiff, currentDeps |-> currentDeps, previousDeps |-> previousDeps]

InstallSizeDiff(cv, sizes, deps, sizeExceeded, depExceeded) ==
    [comparisonVersion |-> cv,
     sizeRatio |-> sizes.sizeRatio,
     sizeIncrease |-> sizes.sizeIncrease,
     currentSize |-> sizes.currentSize,
     previousSize |-> sizes.previousSize,
     depDiff |-> deps.depDiff,
     currentDeps |-> deps.currentDeps,
     previousDeps |-> deps.previousDeps,
     sizeThresholdExceeded |-> sizeExceeded,
     depThresholdExceeded |-> depExceeded]

\* diff.value === null
NoDiff ==
    InstallSizeDiff(NULL, DiffSizes(Rational(0, 1), 0, 0, 0), DiffDeps(0, 0, 0),
                    FALSE, FALSE)

\* if (!current || !previous || !cv) return null
InputsPresent(current, previous, cv) ==
    current # NoResult /\ previous # NoResult /\ cv # NULL

\* mutant: the comparison result checked for its version only
PreviousMatchesVersionOnly(previous, cv, name) == previous.version = cv

\* if (previous.version !== cv || previous.package !== name) return null
PreviousMatches(previous, cv, name) ==
    previous.version = cv /\ previous.package = name

\* mutant: the current result checked for its package only
CurrentMatchesPackageOnly(current, version, name) == current.package = name

\* if (current.version !== version || current.package !== name) return null
CurrentMatches(current, version, name) ==
    current.version = version /\ current.package = name

\* the record built although neither threshold is exceeded
BuildDiffUngated(cv, current, previous) ==
    LET sizeRatio == sizeRatioOf(current, previous)
        depDiff == depDiffOf(current, previous)
    IN  InstallSizeDiff(cv,
            DiffSizes(sizeRatio, current.totalSize - previous.totalSize,
                      current.totalSize, previous.totalSize),
            DiffDeps(depDiff, current.dependencyCount, previous.dependencyCount),
            sizeThresholdExceededOf(sizeRatio), depThresholdExceededOf(depDiff))

\* the record built once the guards have passed
BuildDiff(cv, current, previous) ==
    LET sizeRatio == sizeRatioOf(current, previous)
        depDiff == depDiffOf(current, previous)
        sizeThresholdExceeded == sizeThresholdExceededOf(sizeRatio)
        depThresholdExceeded == depThresholdExceededOf(depDiff)
    IN  IF ~sizeThresholdExceeded /\ ~depThresholdExceeded THEN NoDiff
        ELSE InstallSizeDiff(cv,
                 DiffSizes(sizeRatio, current.totalSize - previous.totalSize,
                           current.totalSize, previous.totalSize),
                 DiffDeps(depDiff, current.dependencyCount, previous.dependencyCount),
                 sizeThresholdExceeded, depThresholdExceeded)

\* the computed `diff` as a function of what it reads
computeDiff(name, version, cv, current, previous) ==
    IF ~InputsPresent(current, previous, cv) THEN NoDiff
    ELSE IF ~PreviousMatches(previous, cv, name) THEN NoDiff
    ELSE IF ~CurrentMatches(current, version, name) THEN NoDiff
    ELSE BuildDiff(cv, current, previous)

\* comparisonVersion.value on the page
comparisonVersion == comparisonVersionOf(pkg, resolvedVersion)

\* diff.value on the page
diff == computeDiff(packageName, resolvedVersion, comparisonVersion,
                    installSize, comparisonInstallSize)

-----------------------------------------------------------------------------
(***************************************************************************)
(* calculateInstallSize (server)                                            *)
(*                                                                         *)
(* The resolved dependency tree is a Map from `${name}@${version}` to an    *)
(* entry { name, version, size, optional }; a Map iterates in insertion     *)
(* order, so the tree is a sequence of entries with pairwise distinct keys. *)
(***************************************************************************)

\* an entry of the resolved tree
DepEntry(name, version, size, optional) ==
    [name |-> name, version |-> version, size |-> size, optional |-> optional]

\* `${name}@${version}`
KeyOf(name, version) == <<name, version>>

\* the key an entry is stored under
EntryKey(dep) == KeyOf(dep.name, dep.version)

\* dep.optional || undefined
OptionalOrUndefined(optional) == IF optional THEN "true" ELSE "undefined"

\* an element of `dependencies`
DependencySize(dep) ==
    [name |-> dep.name, version |-> dep.version, size |-> dep.size,
     optional |-> OptionalOrUndefined(dep.optional)]

\* resolved.get(selfKey)?.size ?? 0
RECURSIVE selfSizeOf(_, _)
selfSizeOf(tree, selfKey) ==
    IF tree = <<>> THEN 0
    ELSE IF EntryKey(Head(tree)) = selfKey THEN Head(tree).size
    ELSE selfSizeOf(Tail(tree), selfKey)

\* the loop's accumulators
Accumulated(dependencies, totalSize, dependencyCount) ==
    [dependencies |-> dependencies, totalSize |-> totalSize,
     dependencyCount |-> dependencyCount]

\* mutant: the loop body without `if (key === selfKey) continue`
LoopBodyKeepingSelf(acc, dep, selfKey) ==
    Accumulated(Append(acc.dependencies, DependencySize(dep)),
                acc.totalSize + dep.size, acc.dependencyCount + 1)

\* one iteration of `for (const [key, dep] of resolved)`
LoopBody(acc, dep, selfKey) ==
    IF EntryKey(dep) = selfKey THEN acc
    ELSE Accumulated(Append(acc.dependencies, DependencySize(dep)),
                     acc.totalSize + dep.size, acc.dependencyCount + 1)

\* the loop over the entries from the i-th on
RECURSIVE Loop(_, _, _, _)
Loop(acc, tree, i, selfKey) ==
    IF i > Len(tree) THEN acc
    ELSE Loop(LoopBody(acc, tree[i], selfKey), tree, i + 1, selfKey)

\* (a, b) => b.size - a.size
bySizeDescending(a, b) == b.size - a.size

\* dependencies.sort(...): stable, each element goes after the last element
\* that does not compare greater
RECURSIVE InsertBySize(_, _)
InsertBySize(s, x) ==
    IF s = <<>> THEN <<x>>
    ELSE IF bySizeDescending(s[Len(s)], x) <= 0 THEN Append(s, x)
    ELSE Append(InsertBySize(SubSeq(s, 1, Len(s) - 1), x), s[Len(s)])

RECURSIVE sortBySize(_)
sortBySize(s) ==
    IF s = <<>> THEN <<>>
    ELSE InsertBySize(sortBySize(SubSeq(s, 1, Len(s) - 1)), s[Len(s)])

\* the InstallSizeResult
InstallSizeResult(name, version, selfSize, acc) ==
    [package |-> name, version |-> version, selfSize |-> selfSize,
     totalSize |-> acc.totalSize, dependencyCount |-> acc.dependencyCount,
     dependencies |-> sortBySize(acc.dependencies)]

NoInstallSizeResult ==
    InstallSizeResult("", NULL, 0, Accumulated(<<>>, 0, 0))

\* calculateInstallSize(name, version), given the tree resolveDependencyTree
\* returned
calculateInstallSize(name, version, tree) ==
    LET selfKey == KeyOf(name, version)
        selfSize == selfSizeOf(tree, selfKey)
    IN  InstallSizeResult(name, version, selfSize,
                          Loop(Accumulated(<<>>, selfSize, 0), tree, 1, selfKey))

\* the function is not being called
CalcIdle ==
    /\ calcName = ""
    /\ calcVersion = NULL
    /\ resolvedTree = <<>>
    /\ calcResult = NoInstallSizeResult
    /\ calcPhase = "off"

-----------------------------------------------------------------------------
(***************************************************************************)
(* The like button of the package page                                      *)
(***************************************************************************)

\* { totalLikes, userHasLiked }
Likes(totalLikes, userHasLiked) ==
    [totalLikes |-> totalLikes, userHasLiked |-> userHasLiked]

\* default: () => ({ totalLikes: 0, userHasLiked: false })
DefaultLikes == Likes(0, FALSE)

\* what a running likeAction holds across its await: the values it read
\* before the optimistic update
ToggleCall(currentlyLiked, currentLikes) ==
    [currentlyLiked |-> currentlyLiked, currentLikes |-> currentLikes]

\* the page before anybody touched the like button
LikeIdle ==
    /\ userHandle = NULL
    /\ authModalOpen = FALSE
    /\ likesData = DefaultLikes
    /\ isLikeActionPending = FALSE
    /\ toggleCalls = <<>>
    /\ likeEvent = "setup"
    /\ resultData = DefaultLikes

-----------------------------------------------------------------------------
(***************************************************************************)
(* The versions list of the package page: loading all versions              *)
(***************************************************************************)

\* allVersionsCache.value before any load succeeded
NoList == "null"

\* a running expandTagRow(tag) or expandOtherVersions() that has reached
\* `await loadAllVersions()`: `awaits` is "fetch" when its loadAllVersions
\* awaits fetchAllPackageVersions, "watch" when it awaits the watcher on
\* allVersionsCache
ExpandCall(expand, tag, awaits) ==
    [expand |-> expand, tag |-> tag, awaits |-> awaits]

\* the component before anything was expanded
VersionsIdle ==
    /\ expandedTags = {}
    /\ loadingTags = {}
    /\ otherVersionsExpanded = FALSE
    /\ otherVersionsLoading = FALSE
    /\ expandedMajorGroups = {}
    /\ allVersionsCache = NoList
    /\ loadingVersions = FALSE
    /\ hasLoadedAll = FALSE
    /\ expandCalls = <<>>
    /\ processedVersions = NoList
    /\ returnedLists = {}

\* the semver filter input while nothing is typed in it
NoFilter == [active |-> FALSE, from |-> 0]

\* the versions list of a package without dist-tags and versions
ProcIdle ==
    /\ distTags = <<>>
    /\ versions = <<>>
    /\ semverFilter = NoFilter
    /\ allVersions = <<>>
    /\ tagVersions = <<>>
    /\ otherMajorGroups = <<>>

-----------------------------------------------------------------------------
(* The rows and groups of the versions list                                 *)
(*                                                                         *)
(* A VersionDisplay is modelled by its version, the field the rows, the     *)
(* lists and the groups are built on.                                       *)

\* an entry of props.distTags: tag -> version
DistTag(tag, version) == [tag |-> tag, version |-> version]

\* an entry of props.versions: version -> SlimVersion, of which `deprecated`
\* is read, by its truthiness
SlimVersion(version, deprecated) ==
    [version |-> version, deprecated |-> deprecated]

\* the tag names used, in the order of String.prototype.localeCompare
LocaleOrder ==
    <<"alpha", "beta", "canary", "dev", "edge", "insiders", "latest", "lts",
      "next", "nightly", "preview", "rc", "stable", "testing">>

LocaleRank(tag) == CHOOSE i \in 1..Len(LocaleOrder) : LocaleOrder[i] = tag

\* a.localeCompare(b), as a sign
localeCompare(a, b) == Sign(LocaleRank(a), LocaleRank(b))

\* the comparator of entry.tags.sort: "latest" first, then alphabetically
tagsComparator(a, b) ==
    IF a = "latest" THEN -1
    ELSE IF b = "latest" THEN 1
    ELSE localeCompare(a, b)

RECURSIVE InsertTag(_, _)
InsertTag(s, x) ==
    IF s = <<>> THEN <<x>>
    ELSE IF tagsComparator(s[Len(s)], x) <= 0 THEN Append(s, x)
    ELSE Append(InsertTag(SubSeq(s, 1, Len(s) - 1), x), s[Len(s)])

\* entry.tags.sort(...)
RECURSIVE sortTags(_)
sortTags(s) ==
    IF s = <<>> THEN <<>>
    ELSE InsertTag(sortTags(SubSeq(s, 1, Len(s) - 1)), s[Len(s)])

\* one step of the loop over Object.entries(props.distTags): the tag joins
\* the entry of its version, or starts one
AddToVersionMap(versionMap, entry) ==
    IF \E i \in 1..Len(versionMap) : versionMap[i].version = entry.version
    THEN [i \in 1..Len(versionMap) |->
             IF versionMap[i].version = entry.version
             THEN [versionMap[i] EXCEPT !.tags = Append(@, entry.tag)]
             ELSE versionMap[i]]
    ELSE Append(versionMap, [version |-> entry.version, tags |-> <<entry.tag>>])

\* versionMap after the loop over the first n dist-tags
RECURSIVE VersionMap(_, _)
VersionMap(tags, n) ==
    IF n = 0 THEN <<>>
    ELSE AddToVersionMap(VersionMap(tags, n - 1), tags[n])

\* versionData?.deprecated, by its truthiness
DeprecatedIn(slimVersions, version) ==
    \E i \in 1..Len(slimVersions) :
        slimVersions[i].version = version /\ slimVersions[i].deprecated

\* a row of allTagRows: its primary tag, all its tags, its version
TagRow(tags, version, deprecated) ==
    [tag |-> tags[1], tags |-> tags, version |-> version,
     deprecated |-> deprecated]

\* (a, b) => compare(b.primaryVersion.version, a.primaryVersion.version)
rowsComparator(a, b) == compare(b.version, a.version)

RECURSIVE InsertRow(_, _)
InsertRow(s, x) ==
    IF s = <<>> THEN <<x>>
    ELSE IF rowsComparator(s[Len(s)], x) <= 0 THEN Append(s, x)
    ELSE Append(InsertRow(SubSeq(s, 1, Len(s) - 1), x), s[Len(s)])

RECURSIVE sortRows(_)
sortRows(s) ==
    IF s = <<>> THEN <<>>
    ELSE InsertRow(sortRows(SubSeq(s, 1, Len(s) - 1)), s[Len(s)])

\* allTagRows: one row per version that has a tag, highest version first
allTagRowsOf(tags, slimVersions) ==
    LET versionMap == VersionMap(tags, Len(tags))
    IN  sortRows([i \in 1..Len(versionMap) |->
                     TagRow(sortTags(versionMap[i].tags),
                            versionMap[i].version,
                            DeprecatedIn(slimVersions, versionMap[i].version))])

\* distTags[tag]: the version of the tag, NULL when there is none
TagVersion(tags, tag) ==
    IF \E i \in 1..Len(tags) : tags[i].tag = tag
    THEN tags[CHOOSE i \in 1..Len(tags) : tags[i].tag = tag].version
    ELSE NULL

\* getPrereleaseChannel(version): the word the prerelease starts with (its
\* rank among the words used), 0 for a version without one
getPrereleaseChannel(version) ==
    IF Len(version.pre) > 0 /\ version.pre[1].alpha
    THEN version.pre[1].v
    ELSE 0

\* getVersionGroupKey(version): "major" from 1.x on, "0.minor" for 0.x
getVersionGroupKey(version) ==
    IF version.major = 0 THEN <<0, version.minor>> ELSE <<version.major>>

\* isSameVersionGroup(a, b)
isSameVersionGroup(a, b) == getVersionGroupKey(a) = getVersionGroupKey(b)

\* mutant: the version group alone decides
InChannelOfAnyPrerelease(version, tagVersion) ==
    isSameVersionGroup(version, tagVersion)

\* the filter of channelVersions: same version group and same channel
InChannelOf(version, tagVersion) ==
    /\ isSameVersionGroup(version, tagVersion)
    /\ getPrereleaseChannel(version) = getPrereleaseChannel(tagVersion)

\* (a, b) => compare(b.version, a.version)
versionsComparator(a, b) == compare(b, a)

RECURSIVE InsertVersion(_, _)
InsertVersion(s, x) ==
    IF s = <<>> THEN <<x>>
    ELSE IF versionsComparator(s[Len(s)], x) <= 0 THEN Append(s, x)
    ELSE Append(InsertVersion(SubSeq(s, 1, Len(s) - 1), x), s[Len(s)])

RECURSIVE sortVersions(_)
sortVersions(s) ==
    IF s = <<>> THEN <<>>
    ELSE InsertVersion(sortVersions(SubSeq(s, 1, Len(s) - 1)), s[Len(s)])

\* channelVersions of a row
channelVersionsOf(loaded, tagVersion) ==
    LET InChannel(v) == InChannelOf(v, tagVersion)
    IN  sortVersions(SelectSeq(loaded, InChannel))

\* tagVersions.value.set(tag, list): a Map keeps the place of a key it has
SetTagVersions(map, tag, list) ==
    IF \E i \in 1..Len(map) : map[i].tag = tag
    THEN [i \in 1..Len(map) |->
             IF map[i].tag = tag THEN [tag |-> tag, versions |-> list]
             ELSE map[i]]
    ELSE Append(map, [tag |-> tag, versions |-> list])

\* tagVersions after the first n rows of the loop over allTagRows
RECURSIVE TagVersionsAfter(_, _, _, _, _)
TagVersionsAfter(map, rows, tags, loaded, n) ==
    IF n = 0 THEN map
    ELSE LET before == TagVersionsAfter(map, rows, tags, loaded, n - 1)
             tagVersion == TagVersion(tags, rows[n].tag)
         IN  IF tagVersion = NULL THEN before
             ELSE SetTagVersions(before, rows[n].tag,
                                 channelVersionsOf(loaded, tagVersion))

\* claimedVersions after the loop over allTagRows
claimedVersionsOf(rows, tags, loaded) ==
    {v \in Range(loaded) :
        \E n \in 1..Len(rows) :
            /\ TagVersion(tags, rows[n].tag) # NULL
            /\ v \in Range(channelVersionsOf(loaded,
                                             TagVersion(tags, rows[n].tag)))}

\* one step of the loop over allVersions that fills byGroupKey
AddToGroup(byGroupKey, version) ==
    LET groupKey == getVersionGroupKey(version)
    IN  IF \E i \in 1..Len(byGroupKey) : byGroupKey[i].groupKey = groupKey
        THEN [i \in 1..Len(byGroupKey) |->
                 IF byGroupKey[i].groupKey = groupKey
                 THEN [byGroupKey[i] EXCEPT !.versions = Append(@, version)]
                 ELSE byGroupKey[i]]
        ELSE Append(byGroupKey,
                    [groupKey |-> groupKey, versions |-> <<version>>])

\* byGroupKey after the first n loaded versions
RECURSIVE ByGroupKey(_, _, _)
ByGroupKey(loaded, claimed, n) ==
    IF n = 0 THEN <<>>
    ELSE IF loaded[n] \in claimed THEN ByGroupKey(loaded, claimed, n - 1)
    ELSE AddToGroup(ByGroupKey(loaded, claimed, n - 1), loaded[n])

\* const [aMajor, aMinor] = a.split('.').map(Number)
MajorOf(groupKey) == groupKey[1]

\* aMinor ?? -1
MinorOrMinusOne(groupKey) == IF Len(groupKey) > 1 THEN groupKey[2] ELSE -1

\* mutant: the group keys in ascending order
groupKeysComparatorAscending(a, b) ==
    IF MajorOf(a) # MajorOf(b) THEN MajorOf(a) - MajorOf(b)
    ELSE MinorOrMinusOne(a) - MinorOrMinusOne(b)

\* the comparator of sortedGroupKeys
groupKeysComparator(a, b) ==
    IF MajorOf(a) # MajorOf(b) THEN MajorOf(b) - MajorOf(a)
    ELSE MinorOrMinusOne(b) - MinorOrMinusOne(a)

RECURSIVE InsertGroup(_, _)
InsertGroup(s, x) ==
    IF s = <<>> THEN <<x>>
    ELSE IF groupKeysComparator(s[Len(s)].groupKey, x.groupKey) <= 0
         THEN Append(s, x)
    ELSE Append(InsertGroup(SubSeq(s, 1, Len(s) - 1), x), s[Len(s)])

RECURSIVE sortGroups(_)
sortGroups(s) ==
    IF s = <<>> THEN <<>>
    ELSE InsertGroup(sortGroups(SubSeq(s, 1, Len(s) - 1)), s[Len(s)])

\* otherMajorGroups.value after processLoadedVersions
otherMajorGroupsOf(rows, tags, loaded) ==
    LET byGroupKey ==
            ByGroupKey(loaded, claimedVersionsOf(rows, tags, loaded),
                       Len(loaded))
    IN  sortGroups([i \in 1..Len(byGroupKey) |->
                       [groupKey |-> byGroupKey[i].groupKey,
                        versions |-> sortVersions(byGroupKey[i].versions)]])

\* processLoadedVersions(loaded): what it assigns
processLoadedVersions(loaded) ==
    LET rows == allTagRowsOf(distTags, versions)
    IN  /\ allVersions' = loaded
        /\ tagVersions' =
               TagVersionsAfter(tagVersions, rows, distTags, loaded, Len(rows))
        /\ otherMajorGroups' = otherMajorGroupsOf(rows, distTags, loaded)
        /\ expandedMajorGroups' = {}

\* the semver filter input holding the range ">=1.k.0"
RangeFrom(k) == [active |-> TRUE, from |-> k]

\* isFilterActive: semverFilter.value.trim() !== ''
isFilterActiveOf(filter) == filter.active

\* allKnownVersions: the keys of props.versions and every version loaded
allKnownVersionsOf(slimVersions, tagLists, groups) ==
    {slimVersions[i].version : i \in 1..Len(slimVersions)}
        \cup UNION {Range(tagLists[i].versions) : i \in 1..Len(tagLists)}
        \cup UNION {Range(groups[i].versions) : i \in 1..Len(groups)}

\* filterVersions(known, range): the known versions the range admits
filterVersions(known, filter) ==
    {v \in known :
        filter.active =>
            /\ Len(v.pre) = 0
            /\ compare(v, Ver(1, filter.from, 0, <<>>)) >= 0}

\* isPackageDeprecated: the version of the latest tag is deprecated
isPackageDeprecatedOf(tags, slimVersions) ==
    LET latestVersion == TagVersion(tags, "latest")
    IN  IF latestVersion = NULL THEN FALSE
        ELSE DeprecatedIn(slimVersions, latestVersion)

\* Maximum number of dist-tag rows to show
MAX_VISIBLE_TAGS == 10

\* rows.slice(0, n)
SliceFromStart(rows, n) ==
    SubSeq(rows, 1, IF Len(rows) < n THEN Len(rows) ELSE n)

\* mutant: nothing is taken off before latest is pushed
PopNothing(first) == first

\* first.pop(): the array without its last element
Pop(first) ==
    IF first = <<>> THEN <<>> ELSE SubSeq(first, 1, Len(first) - 1)

\* the rows that pass the deprecation filter and the semver filter
rowsOf(tagRows, packageDeprecated, filterActive, filteredVersionSet) ==
    LET NotDeprecated(row) == ~row.deprecated
        Matches(row) == row.version \in filteredVersionSet
        rowsMaybeFilteredForDeprecation ==
            IF packageDeprecated THEN tagRows
            ELSE SelectSeq(tagRows, NotDeprecated)
    IN  IF filterActive
        THEN SelectSeq(rowsMaybeFilteredForDeprecation, Matches)
        ELSE rowsMaybeFilteredForDeprecation

\* visibleTagRows
visibleTagRowsOf(tagRows, packageDeprecated, filterActive, filteredVersionSet) ==
    LET rows == rowsOf(tagRows, packageDeprecated, filterActive,
                       filteredVersionSet)
        first == SliceFromStart(rows, MAX_VISIBLE_TAGS)
        IsLatest(row) == row.tag = "latest"
        found == SelectSeq(rows, IsLatest)
    IN  IF found # <<>> /\ found[1] \notin Range(first)
        THEN Append(Pop(first), found[1])
        ELSE first

\* hiddenTagRows
hiddenTagRowsOf(tagRows, visible, filterActive, filteredVersionSet) ==
    LET NotVisible(row) == row \notin Range(visible)
        Matches(row) == row.version \in filteredVersionSet
        hiddenRows == SelectSeq(tagRows, NotVisible)
    IN  IF filterActive THEN SelectSeq(hiddenRows, Matches) ELSE hiddenRows

\* the computed values of the component, in the present state
allTagRows == allTagRowsOf(distTags, versions)

isPackageDeprecated == isPackageDeprecatedOf(distTags, versions)

isFilterActive == isFilterActiveOf(semverFilter)

filteredVersionSet ==
    filterVersions(allKnownVersionsOf(versions, tagVersions, otherMajorGroups),
                   semverFilter)

visibleTagRows ==
    visibleTagRowsOf(allTagRows, isPackageDeprecated, isFilterActive,
                     filteredVersionSet)

hiddenTagRows ==
    hiddenTagRowsOf(allTagRows, visibleTagRows, isFilterActive,
                    filteredVersionSet)

-----------------------------------------------------------------------------
(* Inputs of the version selector                                           *)

V090 == Ver(0, 9, 0, <<>>)
V0100 == Ver(0, 10, 0, <<>>)
V100 == Ver(1, 0, 0, <<>>)
V101 == Ver(1, 0, 1, <<>>)
V200 == Ver(2, 0, 0, <<>>)
\* 2.0.0-beta.1 ("beta" has rank 2 among alpha < beta < rc)
V200alpha1 == Ver(2, 0, 0, <<Ident(TRUE, 1), Ident(FALSE, 1)>>)
V200beta1 == Ver(2, 0, 0, <<Ident(TRUE, 2), Ident(FALSE, 1)>>)

\* package "a": 1.0.0, then 1.0.1, then a beta of 2.0.0; latest is 1.0.1
PackumentA == Packument("a", V101, TRUE, <<Word("created"), V100, V101, V200beta1>>)

\* what may be a key of pkg.time
TimeKeys == {V100, V101, V200, V200beta1,
             Word("created"), Word("modified"), Word("not-a-version")}

\* the longest time map the selector is given
MaxKeys == 4

\* sequences over S without repetition, of length at most n
RECURSIVE Arrangements(_, _)
Arrangements(S, n) ==
    IF n = 0 THEN {<<>>}
    ELSE LET shorter == Arrangements(S, n - 1)
             longest == {t \in shorter : Len(t) = n - 1}
         IN  shorter \cup
             UNION {{Append(t, k) : k \in S \ Range(t)} : t \in longest}

TimeMaps == Arrangements(TimeKeys, MaxKeys)

LatestTags == {NULL, V100, V200, V200beta1}

SelectorPackuments ==
    {Packument("pkg", l, TRUE, t) : l \in LatestTags, t \in TimeMaps}
    \cup {Packument("pkg", l, FALSE, <<>>) : l \in LatestTags}
    \cup {NoPackument}

SelectorVersions == TimeKeys \cup {NULL}

\* the page's variables that the selector does not read
PageIdle ==
    /\ client = TRUE
    /\ packageName = "pkg"
    /\ installSize = NoResult
    /\ comparisonInstallSize = NoResult
    /\ comparisonStatus = "idle"
    /\ inflight = {}
    /\ comparisonDataFrom = NoRequest

CvInit ==
    /\ pkg \in SelectorPackuments
    /\ resolvedVersion \in SelectorVersions
    /\ cvResult = NULL
    /\ cvPhase = "input"
    /\ dfResult = NoDiff
    /\ dfPhase = "off"
    /\ PageIdle
    /\ CalcIdle
    /\ LikeIdle
    /\ VersionsIdle
    /\ ProcIdle

\* reading comparisonVersion.value
ReadComparisonVersion ==
    /\ cvPhase = "input"
    /\ cvResult' = comparisonVersion
    /\ cvPhase' = "done"
    /\ UNCHANGED <<pageVars, dfVars, calcVars, likeVars, versVars, procVars>>

CvNext == ReadComparisonVersion

SpecCV == CvInit /\ [][CvNext]_vars

-----------------------------------------------------------------------------
(* Inputs of the diff, read as a pure function                              *)

\* byte counts 0..MaxSize, and the sizes of the unit tests
MaxSize == 6

SizeValues == (0..MaxSize) \cup {5000, 5100, 7000, 10000}

\* dependency counts 0..MaxDeps, and the counts of the unit tests
MaxDeps == 7

DepValues == (0..MaxDeps) \cup {10, 15}

DfInit ==
    /\ client = TRUE
    /\ packageName = "a"
    /\ resolvedVersion = V101
    /\ pkg = PackumentA
    /\ installSize \in {Result(n, V101, t, d) :
                           n \in {"a", "b"}, t \in SizeValues, d \in DepValues}
    /\ comparisonInstallSize \in {Result("a", v, t, d) :
                           v \in {V100, V101}, t \in SizeValues, d \in DepValues}
    /\ comparisonDataFrom = RequestOf(comparisonInstallSize)
    /\ comparisonStatus = "success"
    /\ inflight = {}
    /\ cvResult = NULL
    /\ cvPhase = "off"
    /\ dfResult = NoDiff
    /\ dfPhase = "input"
    /\ CalcIdle
    /\ LikeIdle
    /\ VersionsIdle
    /\ ProcIdle

\* reading diff.value
ReadDiff ==
    /\ dfPhase = "input"
    /\ dfResult' = diff
    /\ dfPhase' = "done"
    /\ UNCHANGED <<pageVars, cvVars, calcVars, likeVars, versVars, procVars>>

DfNext == ReadDiff

SpecDiff == DfInit /\ [][DfNext]_vars

(***************************************************************************)
(* useInstallSizeDiff on the package page                                   *)
(*                                                                         *)
(* The page hands the composable four reactive inputs (packageName,         *)
(* resolvedVersion, pkg, installSize), each changed by its own event: a     *)
(* route change, or the completion of that input's fetch.  After an event   *)
(* Vue flushes the watcher on [comparisonVersion, packageName] before the   *)
(* next event, so the flush is part of the event's action.                  *)
(*                                                                         *)
(* The comparison fetch keeps every issued request in `inflight` until it   *)
(* settles, and requests settle in any order: the composable cancels        *)
(* nothing, and whether the fetch layer drops a superseded response is not  *)
(* relied on.  Where the fetch layer's version decides whether stale data   *)
(* is kept or reset to the default (null), both outcomes are allowed.       *)
(***************************************************************************)

PackageNames == {"a", "b"}

\* package "b": 1.0.0, then 1.0.1; latest is 1.0.1
PackumentB == Packument("b", V101, TRUE, <<Word("created"), V100, V101, Word("modified")>>)

\* what usePackage can hold
PagePackuments == {NoPackument, PackumentA, PackumentB}

\* what useResolvedVersion can hold
PageVersions == {NULL, V100, V101, V200beta1}

\* the (totalSize, dependencyCount) pairs the install-size endpoint answers with
SizeProfiles == {<<5000, 3>>, <<7000, 10>>}

\* the URL '' the getter returns while there is no comparison version
EmptyUrl == Request("", Word(""))

\* what a request for '' is answered with: whatever is served at the page's
\* own address, which has neither the package nor the version of a result
NotAResult == Result("", Word(""), 0, 0)

\* the endpoint's answer to a request: calculateInstallSize returns
\* { package: name, version, ... } for the name and version it was called with
Response(request, profile) ==
    IF request = EmptyUrl THEN NotAResult
    ELSE Result(request.package, request.version, profile[1], profile[2])

\* the URL getter of useLazyFetch
ComparisonRequest(name, cv) ==
    IF cv = NULL \/ cv = Word("") THEN EmptyUrl ELSE Request(name, cv)

\* useLazyFetch is given a reactive URL and no `watch: false`: the fetch
\* layer watches the URL and re-executes the fetch when it changes
UrlWatcherRefetches(oldUrl, newUrl) == newUrl # oldUrl

\* the watcher's source values changed
WatchTriggered(oldCv, oldName, newCv, newName) ==
    newCv # oldCv \/ newName # oldName

\* ([v]) => { if (v) fetchComparisonSize() }
WatcherFetches(v) == v # NULL /\ v # Word("")

\* data kept, or reset to default() = null
KeptOrDefault(data) == {data, NoResult}

\* mutant: the fetch is executed only when the comparison version changed,
\* not when the package name changed under the same comparison version
FlushWatcherCvOnly(newName, newVersion, newPkg) ==
    LET newCv == comparisonVersionOf(newPkg, newVersion)
    IN  IF client /\ newCv # comparisonVersion /\ WatcherFetches(newCv)
        THEN /\ inflight' = inflight \cup {ComparisonRequest(newName, newCv)}
             /\ comparisonStatus' = "pending"
             /\ comparisonInstallSize' \in KeptOrDefault(comparisonInstallSize)
             /\ comparisonDataFrom' =
                    IF comparisonInstallSize' = NoResult THEN NoRequest
                    ELSE comparisonDataFrom
        ELSE UNCHANGED <<inflight, comparisonStatus, comparisonInstallSize,
                         comparisonDataFrom>>

\* mutant: the watchers also installed during server rendering
FlushWatcherOnServer(newName, newVersion, newPkg) ==
    LET newCv == comparisonVersionOf(newPkg, newVersion)
    IN  IF /\ WatchTriggered(comparisonVersion, packageName, newCv, newName)
           /\ WatcherFetches(newCv)
        THEN /\ inflight' = inflight \cup {ComparisonRequest(newName, newCv)}
             /\ comparisonStatus' = "pending"
             /\ comparisonInstallSize' \in KeptOrDefault(comparisonInstallSize)
             /\ comparisonDataFrom' =
                    IF comparisonInstallSize' = NoResult THEN NoRequest
                    ELSE comparisonDataFrom
        ELSE UNCHANGED <<inflight, comparisonStatus, comparisonInstallSize,
                         comparisonDataFrom>>

\* mutant: the fetch executed after every input event that leaves a
\* comparison version, whether or not the watched values changed
FlushWatcherAlways(newName, newVersion, newPkg) ==
    LET newCv == comparisonVersionOf(newPkg, newVersion)
    IN  IF client /\ WatcherFetches(newCv)
        THEN /\ inflight' = inflight \cup {ComparisonRequest(newName, newCv)}
             /\ comparisonStatus' = "pending"
             /\ comparisonInstallSize' \in KeptOrDefault(comparisonInstallSize)
             /\ comparisonDataFrom' =
                    IF comparisonInstallSize' = NoResult THEN NoRequest
                    ELSE comparisonDataFrom
        ELSE UNCHANGED <<inflight, comparisonStatus, comparisonInstallSize,
                         comparisonDataFrom>>

\* An input event followed by the flush of the two watchers: the composable's
\* own on [comparisonVersion, packageName], and the fetch layer's on the URL.
\* Both execute the same fetch, for the URL after the event.  newName,
\* newVersion and newPkg are the inputs after the event.
FlushWatcher(newName, newVersion, newPkg) ==
    LET newCv == comparisonVersionOf(newPkg, newVersion)
        watcherFetches ==
            /\ WatchTriggered(comparisonVersion, packageName, newCv, newName)
            /\ WatcherFetches(newCv)
        urlWatcherFetches ==
            UrlWatcherRefetches(ComparisonRequest(packageName, comparisonVersion),
                                ComparisonRequest(newName, newCv))
    IN  IF client /\ (watcherFetches \/ urlWatcherFetches)
        THEN /\ inflight' = inflight \cup {ComparisonRequest(newName, newCv)}
             /\ comparisonStatus' = "pending"
             /\ comparisonInstallSize' \in KeptOrDefault(comparisonInstallSize)
             /\ comparisonDataFrom' =
                    IF comparisonInstallSize' = NoResult THEN NoRequest
                    ELSE comparisonDataFrom
        ELSE UNCHANGED <<inflight, comparisonStatus, comparisonInstallSize,
                         comparisonDataFrom>>

\* the route changes to another package
ChangePackageName(n) ==
    /\ n # packageName
    /\ packageName' = n
    /\ FlushWatcher(n, resolvedVersion, pkg)
    /\ UNCHANGED <<client, resolvedVersion, pkg, installSize, cvVars, dfVars, calcVars, likeVars,
                   versVars, procVars>>

\* useResolvedVersion delivers (or resets) the resolved version
ChangeResolvedVersion(v) ==
    /\ v # resolvedVersion
    /\ resolvedVersion' = v
    /\ FlushWatcher(packageName, v, pkg)
    /\ UNCHANGED <<client, packageName, pkg, installSize, cvVars, dfVars, calcVars, likeVars,
                   versVars, procVars>>

\* usePackage delivers (or resets) the packument
ChangePackument(p) ==
    /\ p # pkg
    /\ pkg' = p
    /\ FlushWatcher(packageName, resolvedVersion, p)
    /\ UNCHANGED <<client, packageName, resolvedVersion, installSize, cvVars, dfVars, calcVars, likeVars,
                   versVars, procVars>>

\* the page's own install-size fetch delivers a result (client only:
\* server: false, started in onMounted)
ChangeInstallSize(r) ==
    /\ client
    /\ r # installSize
    /\ installSize' = r
    /\ UNCHANGED <<client, packageName, resolvedVersion, pkg,
                   comparisonInstallSize, comparisonStatus, inflight,
                   comparisonDataFrom, cvVars, dfVars, calcVars, likeVars,
                   versVars, procVars>>

\* a comparison request is answered
ComparisonFetchSucceeds(request, profile) ==
    /\ request \in inflight
    /\ inflight' = inflight \ {request}
    /\ comparisonInstallSize' = Response(request, profile)
    /\ comparisonDataFrom' = request
    /\ comparisonStatus' = "success"
    /\ UNCHANGED <<client, packageName, resolvedVersion, pkg, installSize,
                   cvVars, dfVars, calcVars, likeVars, versVars, procVars>>

\* a comparison request fails
ComparisonFetchFails(request) ==
    /\ request \in inflight
    /\ inflight' = inflight \ {request}
    /\ comparisonInstallSize' \in KeptOrDefault(comparisonInstallSize)
    /\ comparisonDataFrom' =
           IF comparisonInstallSize' = NoResult THEN NoRequest
           ELSE comparisonDataFrom
    /\ comparisonStatus' = "error"
    /\ UNCHANGED <<client, packageName, resolvedVersion, pkg, installSize,
                   cvVars, dfVars, calcVars, likeVars, versVars, procVars>>

\* what the page's install-size fetch can deliver
PageInstallSizes ==
    {NoResult} \cup
    {Result(n, v, profile[1], profile[2]) :
        n \in PackageNames, v \in {V101, V200beta1}, profile \in SizeProfiles}

\* the state when setup() returns: usePackage holds nothing yet or the
\* packument of the package on the route, data is default() = null, and on
\* the client the immediate watcher has run once
Init ==
    /\ client \in BOOLEAN
    /\ packageName \in PackageNames
    /\ resolvedVersion \in PageVersions
    /\ pkg \in {p \in PagePackuments : p = NoPackument \/ p.name = packageName}
    /\ installSize = NoResult
    /\ comparisonInstallSize = NoResult
    /\ comparisonDataFrom = NoRequest
    /\ inflight = IF client /\ WatcherFetches(comparisonVersion)
                  THEN {ComparisonRequest(packageName, comparisonVersion)}
                  ELSE {}
    /\ comparisonStatus = IF inflight = {} THEN "idle" ELSE "pending"
    /\ cvResult = NULL
    /\ cvPhase = "off"
    /\ dfResult = NoDiff
    /\ dfPhase = "off"
    /\ CalcIdle
    /\ LikeIdle
    /\ VersionsIdle
    /\ ProcIdle

Next ==
    \/ \E n \in PackageNames : ChangePackageName(n)
    \/ \E v \in PageVersions : ChangeResolvedVersion(v)
    \/ \E p \in PagePackuments : ChangePackument(p)
    \/ \E r \in PageInstallSizes : ChangeInstallSize(r)
    \/ \E request \in inflight, profile \in SizeProfiles :
           ComparisonFetchSucceeds(request, profile)
    \/ \E request \in inflight : ComparisonFetchFails(request)

Spec == Init /\ [][Next]_vars

-----------------------------------------------------------------------------
(* The page's diff and the results it is computed from                      *)

\* C6: on the page, diff is non-null only if both install-size results are
\* present, a comparison version exists, the current result is for
\* packageName at resolvedVersion and the comparison result is for
\* packageName at the comparison version.
C6_DiffOnlyFromMatchingResults ==
    diff # NoDiff
    => /\ installSize # NoResult
       /\ comparisonInstallSize # NoResult
       /\ comparisonVersion # NULL
       /\ installSize.package = packageName
       /\ installSize.version = resolvedVersion
       /\ comparisonInstallSize.package = packageName
       /\ comparisonInstallSize.version = comparisonVersion

\* a diff on package "b" after the comparison fetch has succeeded while an
\* older request is still in flight
C6_Witness ==
    /\ diff # NoDiff
    /\ packageName = "b"
    /\ comparisonStatus = "success"
    /\ inflight # {}

\* C7: whatever the order of input changes and fetch completions, a non-null
\* diff names the currently selected comparison version and takes
\* previousSize and previousDeps from the answer to the request for exactly
\* packageName at that version; the answer to a superseded request never
\* contributes.
C7_SupersededFetchIgnored ==
    diff # NoDiff
    => /\ diff.comparisonVersion = comparisonVersion
       /\ comparisonDataFrom = Request(packageName, comparisonVersion)
       /\ diff.previousSize = comparisonInstallSize.totalSize
       /\ diff.previousDeps = comparisonInstallSize.dependencyCount

\* the answer to a superseded request has arrived and would exceed a
\* threshold against a matching current result: no diff
C7_Witness ==
    /\ comparisonVersion # NULL
    /\ comparisonDataFrom # NoRequest
    /\ comparisonDataFrom # Request(packageName, comparisonVersion)
    /\ Request(packageName, comparisonVersion) \in inflight
    /\ CurrentMatches(installSize, resolvedVersion, packageName)
    /\ BuildDiff(comparisonVersion, installSize, comparisonInstallSize) # NoDiff
    /\ diff = NoDiff

-----------------------------------------------------------------------------
(* Reference notions for the selector's claims, stated on sets and on the   *)
(* version fields, without the selector's filter, sort or index.            *)

IsStableVersion(v) == v.kind = "semver" /\ v.pre = <<>>

\* a precedes b in semantic-version order (both stable)
SemverBefore(a, b) ==
    \/ a.major < b.major
    \/ a.major = b.major /\ a.minor < b.minor
    \/ a.major = b.major /\ a.minor = b.minor /\ a.patch < b.patch

StableKeysOf(packument) == {k \in Range(packument.time) : IsStableVersion(k)}

LowerStableKeys(packument, v) == {k \in StableKeysOf(packument) : SemverBefore(k, v)}

\* the position of key k in publish order
PublishedAt(packument, k) == CHOOSE i \in 1..Len(packument.time) : packument.time[i] = k

EarlierStableKeys(packument, v) ==
    {k \in StableKeysOf(packument) : PublishedAt(packument, k) < PublishedAt(packument, v)}

\* the stable keys were published in semantic-version order
PublishedInSemverOrder(packument) ==
    \A a, b \in StableKeysOf(packument) :
        SemverBefore(a, b) => PublishedAt(packument, a) < PublishedAt(packument, b)

\* the selector was called on a loaded packument that has a time map, for a
\* stable version
StableCallDone ==
    /\ cvPhase = "done"
    /\ pkg # NoPackument
    /\ pkg.hasTime
    /\ resolvedVersion # NULL
    /\ ~IsPrerelease(resolvedVersion)

\* C1: for a stable resolved version that is a key of the time map and has a
\* lower stable key, the selector returns the greatest stable key below it in
\* semantic-version order; 'created', 'modified', unparsable and prerelease
\* keys play no part.
C1_ImmediateSemverPredecessor ==
    (StableCallDone /\ IsStableVersion(resolvedVersion)
        /\ resolvedVersion \in Range(pkg.time)
        /\ LowerStableKeys(pkg, resolvedVersion) # {})
    => /\ cvResult \in LowerStableKeys(pkg, resolvedVersion)
       /\ \A k \in LowerStableKeys(pkg, resolvedVersion) :
              k = cvResult \/ SemverBefore(k, cvResult)

\* 2.0.0 with 1.0.0, 1.0.1, a beta of 2.0.0 and 'created' in the map: 1.0.1
C1_Witness ==
    /\ StableCallDone
    /\ resolvedVersion = V200
    /\ {V100, V101, V200, V200beta1} \subseteq Range(pkg.time)
    /\ pkg.time[1] = V200beta1
    /\ cvResult = V101

\* C2: for a stable resolved version the selector returns none when the
\* version is the lowest stable key of the time map, and when it is not a key
\* of the time map.
C2_NoneForEarliestOrAbsent ==
    (StableCallDone
        /\ \/ resolvedVersion \notin Range(pkg.time)
           \/ IsStableVersion(resolvedVersion) /\ LowerStableKeys(pkg, resolvedVersion) = {})
    => cvResult = NULL

\* 1.0.0 is the lowest stable key although 2.0.0 was published before it
C2_Witness ==
    /\ StableCallDone
    /\ resolvedVersion = V100
    /\ V100 \in Range(pkg.time)
    /\ V200 \in Range(pkg.time)
    /\ PublishedAt(pkg, V200) < PublishedAt(pkg, V100)
    /\ cvResult = NULL

C2_WitnessAbsent ==
    /\ StableCallDone
    /\ resolvedVersion = V101
    /\ Range(pkg.time) = {V100, V200}
    /\ cvResult = NULL

\* C3: for a prerelease resolved version the selector returns the `latest`
\* dist-tag, and none when the tag is absent or is the resolved version; the
\* time map plays no part (it may be missing), and the result is never the
\* resolved version itself.
C3_PrereleaseUsesLatest ==
    (cvPhase = "done" /\ pkg # NoPackument /\ IsPrerelease(resolvedVersion))
    => /\ cvResult = (IF pkg.latest = NULL \/ pkg.latest = resolvedVersion
                      THEN NULL ELSE pkg.latest)
       /\ cvResult # resolvedVersion

C3_Witness ==
    /\ cvPhase = "done"
    /\ resolvedVersion = V200beta1
    /\ pkg.latest = V100
    /\ ~pkg.hasTime
    /\ cvResult = V100

C3_WitnessSelf ==
    /\ cvPhase = "done"
    /\ resolvedVersion = V200beta1
    /\ pkg.latest = V200beta1
    /\ cvResult = NULL

\* C4: reading the comparison version never throws: for every packument
\* (time map or dist-tags missing, keys that do not parse) and every resolved
\* version (also one that does not parse) the outcome is a string or none.
C4_NeverThrows ==
    cvPhase = "done" => cvResult # TypeError

-----------------------------------------------------------------------------
(* The diff's arithmetic, on the values the diff was computed from          *)

DiffProduced == dfPhase = "done" /\ dfResult # NoDiff

\* C8: the size ratio of a diff is (current.totalSize - previous.totalSize)
\* / previous.totalSize when previous.totalSize > 0 and 0 when it is 0; it is
\* always a finite number.
C8_SizeRatio ==
    DiffProduced
    => /\ dfResult.sizeRatio.den # 0
       /\ comparisonInstallSize.totalSize > 0
            => RatEqual(dfResult.sizeRatio,
                        Rational(installSize.totalSize - comparisonInstallSize.totalSize,
                                 comparisonInstallSize.totalSize))
       /\ comparisonInstallSize.totalSize = 0
            => RatEqual(dfResult.sizeRatio, Rational(0, 1))

\* previous size 0 and six more dependencies: a diff with ratio 0
C8_Witness ==
    /\ DiffProduced
    /\ comparisonInstallSize.totalSize = 0
    /\ installSize.totalSize = 5000
    /\ dfResult.sizeRatio.num = 0

\* current 7000, previous 5000: ratio 0.4
C8_WitnessExample ==
    /\ DiffProduced
    /\ installSize.totalSize = 7000
    /\ comparisonInstallSize.totalSize = 5000
    /\ RatEqual(dfResult.sizeRatio, Rational(4, 10))
    /\ dfResult.sizeThresholdExceeded

\* C9: every diff reports depDiff and sizeIncrease as current minus previous,
\* the two sizes and the two dependency counts as given, and the selected
\* comparison version.
C9_DiffFields ==
    DiffProduced
    => /\ dfResult.depDiff =
              installSize.dependencyCount - comparisonInstallSize.dependencyCount
       /\ dfResult.sizeIncrease =
              installSize.totalSize - comparisonInstallSize.totalSize
       /\ dfResult.currentSize = installSize.totalSize
       /\ dfResult.previousSize = comparisonInstallSize.totalSize
       /\ dfResult.currentDeps = installSize.dependencyCount
       /\ dfResult.previousDeps = comparisonInstallSize.dependencyCount
       /\ dfResult.comparisonVersion = V100

\* the values of the unit test "returns correct diff values"
C9_Witness ==
    /\ DiffProduced
    /\ installSize.totalSize = 10000 /\ installSize.dependencyCount = 15
    /\ comparisonInstallSize.totalSize = 5000
    /\ comparisonInstallSize.dependencyCount = 5
    /\ dfResult.depDiff = 10
    /\ dfResult.sizeIncrease = 5000

\* C10: sizeThresholdExceeded is set exactly when the size grew by strictly
\* more than a quarter of a positive previous size, depThresholdExceeded
\* exactly when strictly more than 5 dependencies were added; neither flag
\* reads the other quantity.
C10_ThresholdFlags ==
    DiffProduced
    => /\ dfResult.sizeThresholdExceeded <=>
              /\ comparisonInstallSize.totalSize > 0
              /\ 4 * (installSize.totalSize - comparisonInstallSize.totalSize)
                    > comparisonInstallSize.totalSize
       /\ dfResult.depThresholdExceeded <=>
              installSize.dependencyCount - comparisonInstallSize.dependencyCount > 5

\* growth of exactly 25% (4 to 5) with six more dependencies: only the
\* dependency flag
C10_Witness ==
    /\ DiffProduced
    /\ comparisonInstallSize.totalSize = 4 /\ installSize.totalSize = 5
    /\ dfResult.depDiff = 6
    /\ ~dfResult.sizeThresholdExceeded
    /\ dfResult.depThresholdExceeded

\* exactly 5 more dependencies with the size doubled: only the size flag
C10_WitnessDeps ==
    /\ DiffProduced
    /\ dfResult.depDiff = 5
    /\ dfResult.sizeThresholdExceeded
    /\ ~dfResult.depThresholdExceeded

-----------------------------------------------------------------------------
(* The threshold gate                                                       *)

\* the size grew by more than a quarter of a positive previous size
SizeGrewPastThreshold ==
    /\ comparisonInstallSize.totalSize > 0
    /\ 4 * (installSize.totalSize - comparisonInstallSize.totalSize)
          > comparisonInstallSize.totalSize

\* more than five dependencies were added
DepsGrewPastThreshold ==
    installSize.dependencyCount - comparisonInstallSize.dependencyCount > 5

\* C11: with both results present and matching, diff is null whenever neither
\* the size nor the dependency count grew past its threshold; every diff has
\* at least one of its two flags set; a smaller size or fewer dependencies
\* alone never produce a diff.
C11_GateSuppresses ==
    dfPhase = "done"
    => /\ (~SizeGrewPastThreshold /\ ~DepsGrewPastThreshold) => dfResult = NoDiff
       /\ dfResult # NoDiff
            => dfResult.sizeThresholdExceeded \/ dfResult.depThresholdExceeded
       /\ (/\ installSize.totalSize <= comparisonInstallSize.totalSize
           /\ installSize.dependencyCount <= comparisonInstallSize.dependencyCount)
            => dfResult = NoDiff

\* the values of the unit test "returns null when both thresholds are not
\* met": 5000 to 5100 bytes and 3 to 4 dependencies, both results matching
C11_Witness ==
    /\ dfPhase = "done"
    /\ InputsPresent(installSize, comparisonInstallSize, V100)
    /\ PreviousMatches(comparisonInstallSize, V100, packageName)
    /\ CurrentMatches(installSize, resolvedVersion, packageName)
    /\ installSize.totalSize = 5100 /\ comparisonInstallSize.totalSize = 5000
    /\ installSize.dependencyCount = 4
    /\ comparisonInstallSize.dependencyCount = 3
    /\ dfResult = NoDiff

\* a size that shrank by more than a quarter, with one dependency fewer
C11_WitnessDecrease ==
    /\ dfPhase = "done"
    /\ CurrentMatches(installSize, resolvedVersion, packageName)
    /\ PreviousMatches(comparisonInstallSize, V100, packageName)
    /\ installSize.totalSize = 5000 /\ comparisonInstallSize.totalSize = 7000
    /\ installSize.dependencyCount = 2
    /\ comparisonInstallSize.dependencyCount = 3
    /\ dfResult = NoDiff

-----------------------------------------------------------------------------
(* When the comparison fetch is issued                                      *)

\* the requests issued by a step
Issued == inflight' \ inflight

\* comparisonVersion.value and diff.value after a step
comparisonVersionNext == comparisonVersionOf(pkg', resolvedVersion')

diffNext ==
    computeDiff(packageName', resolvedVersion', comparisonVersionNext,
                installSize', comparisonInstallSize')

\* C12: no comparison install-size fetch is issued while no comparison
\* version is resolvable, whatever the sequence of input changes, and diff
\* is null as long as there is none.
C12_NoFetchWithoutComparisonVersion ==
    /\ comparisonVersion = NULL => diff = NoDiff
    /\ [][/\ comparisonVersionNext = NULL => diffNext = NoDiff
          /\ Issued # {} => comparisonVersionNext # NULL]_vars

\* the comparison result `previous` answers the request for package `name`
\* and comparison version `cv`, the result `current` is the one of `name` and
\* `version`, and one of the two thresholds is passed
DiffIsDue(name, version, cv, current, previous, from) ==
    /\ cv # NULL
    /\ previous # NoResult
    /\ from = Request(name, cv)
    /\ current # NoResult
    /\ current.package = name
    /\ current.version = version
    /\ \/ /\ previous.totalSize > 0
          /\ 4 * (current.totalSize - previous.totalSize) > previous.totalSize
       \/ current.dependencyCount - previous.dependencyCount > 5

\* C13: on the client a fetch for the current package and comparison version
\* is issued when setup runs with a comparison version, and whenever the
\* comparison version or the package name changes and there is a comparison
\* version afterwards; once the answer to that request is on the page next to
\* a matching current result and a threshold is exceeded, diff is non-null
\* with no further input.
C13_FetchIssuedAndDiffFollows ==
    /\ (client /\ comparisonVersion # NULL)
         => Request(packageName, comparisonVersion) \in inflight
    /\ [][(/\ client
           /\ comparisonVersionNext # NULL
           /\ \/ comparisonVersionNext # comparisonVersion
              \/ packageName' # packageName)
          => Request(packageName', comparisonVersionNext) \in inflight']_vars
    /\ [][DiffIsDue(packageName', resolvedVersion', comparisonVersionNext,
                    installSize', comparisonInstallSize', comparisonDataFrom')
          => diffNext # NoDiff]_vars

\* the request issued for package "b" was answered and a diff is shown
C13_Witness ==
    /\ client
    /\ packageName = "b"
    /\ DiffIsDue(packageName, resolvedVersion, comparisonVersion, installSize,
                 comparisonInstallSize, comparisonDataFrom)
    /\ comparisonStatus = "success"
    /\ inflight = {}
    /\ diff # NoDiff
    /\ diff.comparisonVersion = V100

\* after a change of the package name alone, the request for the new name is
\* in flight next to the one for the old name
C13_WitnessNameChange ==
    /\ client
    /\ comparisonVersion = V100
    /\ inflight = {Request("a", V100), Request("b", V100)}

\* C14: during server rendering no comparison fetch is ever issued: nothing
\* is in flight, the comparison data stays at its default and the status
\* idle, so diff is null on the server.
C14_NoFetchOnServer ==
    ~client
    => /\ inflight = {}
       /\ comparisonInstallSize = NoResult
       /\ comparisonStatus = "idle"
       /\ diff = NoDiff

\* server rendering of package "b" at 1.0.1, whose comparison version is
\* 1.0.0: on the client this state has the request in flight
C14_Witness ==
    /\ ~client
    /\ packageName = "b"
    /\ pkg = PackumentB
    /\ resolvedVersion = V101
    /\ comparisonVersion = V100
    /\ inflight = {}

\* a step in which a comparison request fails
FetchFailed == inflight' # inflight /\ comparisonStatus' = "error"

\* C15: a failed comparison fetch leaves a null diff null, and nothing is
\* retried: a request is issued only by a step that changes the comparison
\* version or the package name, never by the failure or by any other step.
C15_FailureLeavesNullAndNoRetry ==
    /\ [][(FetchFailed /\ diff = NoDiff) => diffNext = NoDiff]_vars
    /\ [][FetchFailed => Issued = {}]_vars
    /\ [][Issued # {}
          => \/ comparisonVersionNext # comparisonVersion
             \/ packageName' # packageName]_vars

\* the only request failed: nothing is in flight and diff is null although
\* the current result is there and a comparison version is resolvable
C15_Witness ==
    /\ client
    /\ comparisonStatus = "error"
    /\ inflight = {}
    /\ comparisonInstallSize = NoResult
    /\ comparisonVersion = V100
    /\ installSize = Result(packageName, resolvedVersion, 7000, 10)
    /\ diff = NoDiff

-----------------------------------------------------------------------------
(* The packument the comparison version is selected from                    *)

\* C18: whenever diff is non-null, the packument the comparison version was
\* selected from is the one of the package named by packageName.
C18_DiffOnlyFromOwnPackument ==
    diff # NoDiff => pkg.name = packageName

-----------------------------------------------------------------------------
(* calculateInstallSize, called on bounded trees                            *)

TreeNames == {"a", "b"}

TreeVersions == {V100, V101}

TreeKeys == {KeyOf(n, v) : n \in TreeNames, v \in TreeVersions}

\* the largest tree resolveDependencyTree returns
MaxEntries == 3

\* the largest unpacked size of one entry
MaxEntrySize == 1

\* the tree stored under the keys ks, in that order, with the given sizes
\* and optional marks
TreeOver(ks, sizes, optionals) ==
    [i \in 1..Len(ks) |-> DepEntry(ks[i][1], ks[i][2], sizes[i], optionals[i])]

\* the orders in which up to MaxEntries distinct keys can be inserted
KeyOrders == Arrangements(TreeKeys, MaxEntries)

CalcInit ==
    /\ calcName \in TreeNames
    /\ calcVersion \in TreeVersions
    /\ \E ks \in KeyOrders :
          \E sizes \in [1..Len(ks) -> 0..MaxEntrySize],
             optionals \in [1..Len(ks) -> BOOLEAN] :
             resolvedTree = TreeOver(ks, sizes, optionals)
    /\ calcResult = NoInstallSizeResult
    /\ calcPhase = "input"
    /\ pkg = NoPackument
    /\ resolvedVersion = NULL
    /\ cvResult = NULL
    /\ cvPhase = "off"
    /\ dfResult = NoDiff
    /\ dfPhase = "off"
    /\ PageIdle
    /\ LikeIdle
    /\ VersionsIdle
    /\ ProcIdle

\* the call returns
CallCalculateInstallSize ==
    /\ calcPhase = "input"
    /\ calcResult' = calculateInstallSize(calcName, calcVersion, resolvedTree)
    /\ calcPhase' = "done"
    /\ UNCHANGED <<calcName, calcVersion, resolvedTree, pageVars, cvVars, dfVars,
                   likeVars, versVars, procVars>>

CalcNext == CallCalculateInstallSize

SpecCalc == CalcInit /\ [][CalcNext]_vars

\* the positions of the tree that hold the package itself, and the others
SelfPositions ==
    {i \in 1..Len(resolvedTree) :
        resolvedTree[i].name = calcName /\ resolvedTree[i].version = calcVersion}

OtherPositions == (1..Len(resolvedTree)) \ SelfPositions

\* the sum of the sizes of a list of dependencies
RECURSIVE SumOfSizes(_)
SumOfSizes(deps) ==
    IF deps = <<>> THEN 0 ELSE Head(deps).size + SumOfSizes(Tail(deps))

\* the positions of the list that name the same package and version
Listed(deps, name, version) ==
    {j \in 1..Len(deps) : deps[j].name = name /\ deps[j].version = version}

\* C17: for every resolved tree, selfSize is the size of the entry keyed
\* name@version (0 when there is none), the dependencies list holds every
\* other entry exactly once with its size and never the package itself,
\* dependencyCount is the length of the list, and totalSize is selfSize plus
\* the sum of the listed sizes.
C17_InstallSizeTotals ==
    calcPhase = "done"
    => LET deps == calcResult.dependencies
       IN  /\ SelfPositions = {} => calcResult.selfSize = 0
           /\ \A i \in SelfPositions : calcResult.selfSize = resolvedTree[i].size
           /\ \A i \in OtherPositions :
                 \E j \in 1..Len(deps) :
                    /\ Listed(deps, resolvedTree[i].name, resolvedTree[i].version) = {j}
                    /\ deps[j].size = resolvedTree[i].size
           /\ Listed(deps, calcName, calcVersion) = {}
           /\ Len(deps) = Cardinality(OtherPositions)
           /\ calcResult.dependencyCount = Len(deps)
           /\ calcResult.totalSize = calcResult.selfSize + SumOfSizes(deps)

\* the package itself stored between two dependencies
C17_Witness ==
    /\ calcPhase = "done"
    /\ Len(resolvedTree) = 3
    /\ SelfPositions = {2}
    /\ resolvedTree[2].size = 1
    /\ resolvedTree[1].size = 0 /\ resolvedTree[3].size = 1
    /\ calcResult.selfSize = 1
    /\ calcResult.totalSize = 2
    /\ calcResult.dependencyCount = 2

\* a tree without an entry for the package itself
C17_WitnessNoSelf ==
    /\ calcPhase = "done"
    /\ Len(resolvedTree) = 2
    /\ SelfPositions = {}
    /\ calcResult.selfSize = 0
    /\ calcResult.totalSize = 2

-----------------------------------------------------------------------------
(***************************************************************************)
(* likeAction and the togglePackageLike call it awaits                      *)
(*                                                                         *)
(* likeAction runs to its await in one step and resumes in a second step    *)
(* when togglePackageLike settles.  Between the two, anything else on the   *)
(* page can happen: more clicks, the likes fetch delivering data, the user  *)
(* signing in or out.                                                       *)
(***************************************************************************)

\* the largest like count the server reports
MaxLikes == 2

\* what the likes endpoint and togglePackageLike answer with: a count that
\* includes the user's own like
ServerLikes ==
    {Likes(t, l) : t \in 0..MaxLikes, l \in BOOLEAN} \ {Likes(0, TRUE)}

UserHandles == {NULL, Word("alice.test")}

\* mutant: nobody counts as signed out
NotSignedInNever(handle) == FALSE

\* user.value?.handle == null
NotSignedIn(handle) == handle = NULL

\* mutant: clicks are not held back while a call is awaited
HeldBackNever(pending) == FALSE

\* if (isLikeActionPending.value) return
HeldBack(pending) == pending

\* mutant: the optimistic update takes a like away whatever the flag was
OptimisticLikesAlwaysDown(currentlyLiked, currentLikes) ==
    Likes(currentLikes - 1, ~currentlyLiked)

\* the optimistic update
OptimisticLikes(currentlyLiked, currentLikes) ==
    Likes(IF currentlyLiked THEN currentLikes - 1 ELSE currentLikes + 1,
          ~currentlyLiked)

\* mutant: the revert restores the count but not the flag
RevertedLikesCountOnly(call) == Likes(call.currentLikes, ~call.currentlyLiked)

\* the revert
RevertedLikes(call) == Likes(call.currentLikes, call.currentlyLiked)

\* the like button is clicked: likeAction up to its await
likeAction ==
    /\ likeEvent' = "likeAction"
    /\ UNCHANGED resultData
    /\ IF NotSignedIn(userHandle)
       THEN /\ authModalOpen' = TRUE
            /\ UNCHANGED <<likesData, isLikeActionPending, toggleCalls>>
       ELSE IF HeldBack(isLikeActionPending)
       THEN UNCHANGED <<authModalOpen, likesData, isLikeActionPending, toggleCalls>>
       ELSE LET currentlyLiked == likesData.userHasLiked
                currentLikes == likesData.totalLikes
            IN  /\ likesData' = OptimisticLikes(currentlyLiked, currentLikes)
                /\ isLikeActionPending' = TRUE
                /\ toggleCalls' =
                       Append(toggleCalls, ToggleCall(currentlyLiked, currentLikes))
                /\ UNCHANGED authModalOpen
    /\ UNCHANGED <<userHandle, pageVars, cvVars, dfVars, calcVars, versVars, procVars>>

\* the toggleCalls without the i-th
Without(calls, i) == SubSeq(calls, 1, i - 1) \o SubSeq(calls, i + 1, Len(calls))

\* togglePackageLike resolves with { success: true, data }
ToggleSucceeds(i, data) ==
    /\ i \in 1..Len(toggleCalls)
    /\ isLikeActionPending' = FALSE
    /\ likesData' = data
    /\ toggleCalls' = Without(toggleCalls, i)
    /\ likeEvent' = "toggleSucceeded"
    /\ resultData' = data
    /\ UNCHANGED <<userHandle, authModalOpen, pageVars, cvVars, dfVars, calcVars, versVars,
                   procVars>>

\* togglePackageLike resolves with { success: false }
ToggleUnsuccessful(i) ==
    /\ i \in 1..Len(toggleCalls)
    /\ isLikeActionPending' = FALSE
    /\ likesData' = RevertedLikes(toggleCalls[i])
    /\ toggleCalls' = Without(toggleCalls, i)
    /\ likeEvent' = "toggleUnsuccessful"
    /\ UNCHANGED resultData
    /\ UNCHANGED <<userHandle, authModalOpen, pageVars, cvVars, dfVars, calcVars, versVars,
                   procVars>>

\* togglePackageLike rejects: the catch block
ToggleThrows(i) ==
    /\ i \in 1..Len(toggleCalls)
    /\ likesData' = RevertedLikes(toggleCalls[i])
    /\ isLikeActionPending' = FALSE
    /\ toggleCalls' = Without(toggleCalls, i)
    /\ likeEvent' = "toggleThrew"
    /\ UNCHANGED resultData
    /\ UNCHANGED <<userHandle, authModalOpen, pageVars, cvVars, dfVars, calcVars, versVars,
                   procVars>>

\* the likes fetch (useFetch on /api/social/likes/<packageName>) delivers
LikesFetched(data) ==
    /\ likesData' = data
    /\ likeEvent' = "likesFetched"
    /\ UNCHANGED resultData
    /\ UNCHANGED <<userHandle, authModalOpen, isLikeActionPending, toggleCalls,
                   pageVars, cvVars, dfVars, calcVars, versVars, procVars>>

\* the user signs in or out
UserChanges(handle) ==
    /\ handle # userHandle
    /\ userHandle' = handle
    /\ likeEvent' = "userChanged"
    /\ UNCHANGED resultData
    /\ UNCHANGED <<authModalOpen, likesData, isLikeActionPending, toggleCalls,
                   pageVars, cvVars, dfVars, calcVars, versVars, procVars>>

\* the auth modal is closed
AuthModalCloses ==
    /\ authModalOpen
    /\ authModalOpen' = FALSE
    /\ likeEvent' = "authModalClosed"
    /\ UNCHANGED resultData
    /\ UNCHANGED <<userHandle, likesData, isLikeActionPending, toggleCalls,
                   pageVars, cvVars, dfVars, calcVars, versVars, procVars>>

\* the page on the client when setup() returns
LikeInit ==
    /\ userHandle \in UserHandles
    /\ authModalOpen = FALSE
    /\ likesData = DefaultLikes
    /\ isLikeActionPending = FALSE
    /\ toggleCalls = <<>>
    /\ likeEvent = "setup"
    /\ resultData = DefaultLikes
    /\ PageIdle
    /\ pkg = NoPackument
    /\ resolvedVersion = NULL
    /\ cvResult = NULL
    /\ cvPhase = "off"
    /\ dfResult = NoDiff
    /\ dfPhase = "off"
    /\ CalcIdle
    /\ VersionsIdle
    /\ ProcIdle

LikeNext ==
    \/ likeAction
    \/ \E i \in 1..Len(toggleCalls), data \in ServerLikes : ToggleSucceeds(i, data)
    \/ \E i \in 1..Len(toggleCalls) : ToggleUnsuccessful(i)
    \/ \E i \in 1..Len(toggleCalls) : ToggleThrows(i)
    \/ \E data \in ServerLikes : LikesFetched(data)
    \/ \E handle \in UserHandles : UserChanges(handle)
    \/ AuthModalCloses

SpecLike == LikeInit /\ [][LikeNext]_vars

\* a step that is a click on the like button
Clicked == likeEvent' = "likeAction"

\* C19: likeAction invoked while nobody is signed in opens the auth modal and
\* does nothing else: likesData and isLikeActionPending keep their values and
\* togglePackageLike is not called.
C19_SignedOutClickOnlyOpensModal ==
    [][(Clicked /\ userHandle = NULL)
       => /\ authModalOpen'
          /\ likesData' = likesData
          /\ isLikeActionPending' = isLikeActionPending
          /\ toggleCalls' = toggleCalls
          /\ userHandle' = userHandle]_vars

\* a signed-out click on a page showing two likes: the modal is open and
\* nothing else moved
C19_Witness ==
    /\ likeEvent = "likeAction"
    /\ userHandle = NULL
    /\ authModalOpen
    /\ likesData = Likes(2, FALSE)
    /\ ~isLikeActionPending
    /\ toggleCalls = <<>>

\* C20: at most one togglePackageLike call is awaited at any time, and
\* isLikeActionPending is true exactly while one is; a click while it is true
\* calls nothing and changes neither likesData nor isLikeActionPending; after
\* a call settles, successfully, unsuccessfully or by throwing,
\* isLikeActionPending is false.
C20_OneToggleInFlight ==
    /\ Len(toggleCalls) <= 1 /\ (isLikeActionPending <=> Len(toggleCalls) = 1)
    /\ [][/\ Len(toggleCalls') <= 1
          /\ isLikeActionPending' <=> Len(toggleCalls') = 1
          /\ (Clicked /\ isLikeActionPending)
                => /\ toggleCalls' = toggleCalls
                   /\ likesData' = likesData
                   /\ isLikeActionPending' = isLikeActionPending
          /\ Len(toggleCalls') < Len(toggleCalls) => ~isLikeActionPending']_vars

\* a click while the call of an earlier click is awaited: the likes fetch
\* has overwritten the optimistic value in between, and the click left it
C20_Witness ==
    /\ likeEvent = "likeAction"
    /\ userHandle # NULL
    /\ isLikeActionPending
    /\ toggleCalls = <<ToggleCall(TRUE, 2)>>
    /\ likesData = Likes(2, TRUE)

\* the call threw: the button is free again
C20_WitnessThrew ==
    /\ likeEvent = "toggleThrew"
    /\ ~isLikeActionPending
    /\ toggleCalls = <<>>

\* a step in which likeAction reaches its await
CallStarted == Len(toggleCalls') > Len(toggleCalls)

\* C21: a click that calls togglePackageLike flips userHasLiked and moves
\* totalLikes by exactly one, down when the user had liked and up otherwise,
\* and keeps the two values it read; when the call is unsuccessful or throws,
\* likesData is exactly what it was immediately before that click; when the
\* call succeeds, likesData is the data the server returned.
C21_OptimisticUpdateAndRevert ==
    /\ [][CallStarted
          => /\ likesData'.userHasLiked = ~likesData.userHasLiked
             /\ likesData'.totalLikes =
                    IF likesData.userHasLiked THEN likesData.totalLikes - 1
                    ELSE likesData.totalLikes + 1
             /\ toggleCalls'[Len(toggleCalls')].currentLikes = likesData.totalLikes
             /\ toggleCalls'[Len(toggleCalls')].currentlyLiked = likesData.userHasLiked]_vars
    /\ [][likeEvent' \in {"toggleUnsuccessful", "toggleThrew"}
          => /\ likesData'.totalLikes = toggleCalls[1].currentLikes
             /\ likesData'.userHasLiked = toggleCalls[1].currentlyLiked]_vars
    /\ [][likeEvent' = "toggleSucceeded" => likesData' = resultData']_vars

\* the call of an unlike at two likes threw: the page is back at two likes,
\* liked
C21_Witness ==
    /\ likeEvent = "toggleThrew"
    /\ likesData = Likes(2, TRUE)
    /\ toggleCalls = <<>>
    /\ ~isLikeActionPending

\* a like at one like is awaited: two likes, liked
C21_WitnessOptimistic ==
    /\ likeEvent = "likeAction"
    /\ toggleCalls = <<ToggleCall(FALSE, 1)>>
    /\ likesData = Likes(2, TRUE)

\* C22: as long as the server only supplies counts that are not negative and
\* that include the user's own like, likesData.totalLikes is never negative,
\* whatever clicks and call outcomes came before.
C22_TotalLikesNeverNegative == likesData.totalLikes >= 0

\* the only like was taken away optimistically: zero likes while the call is
\* awaited
C22_Witness ==
    /\ isLikeActionPending
    /\ toggleCalls = <<ToggleCall(TRUE, 1)>>
    /\ likesData = Likes(0, FALSE)

-----------------------------------------------------------------------------
(***************************************************************************)
(* expandTagRow, expandOtherVersions and loadAllVersions                    *)
(*                                                                         *)
(* An expand call runs to `await loadAllVersions()` in one step.  When      *)
(* fetchAllPackageVersions resolves, the call that awaited it and the calls *)
(* that awaited the watcher on allVersionsCache all resume before the next  *)
(* event, so their continuations belong to the step of the resolution.      *)
(* When it rejects, only the call that awaited it resumes.                  *)
(*                                                                         *)
(* The package has the tags latest and next, on two versions, so that each  *)
(* is the primary tag of a row; a response is one of two lists.             *)
(***************************************************************************)

\* the primary tags of the tag rows
VersionTags == {"latest", "next"}

\* what fetchAllPackageVersions can resolve with, by name
VersionLists == {"listA", "listB"}

\* the versions a list names
Fetched(list) ==
    IF list = "listA" THEN <<V100, V200beta1, V200>> ELSE <<V090, V100, V200>>

\* the keys of the version groups under "Other versions"
GroupKeys == {<<1>>, <<0, 9>>}

\* the most expand calls awaiting at the same time
MaxCalls == 3

\* if (allVersionsCache.value) return allVersionsCache.value
Cached(cache) == cache # NoList

\* mutant: a call arriving during a load fetches as well
MustWaitNever(loading) == FALSE

\* if (loadingVersions.value) { await new Promise(... watch(allVersionsCache ...)) }
MustWait(loading) == loading

\* the positions of the calls that await the fetch, and the watcher
Fetching(calls) == {i \in 1..Len(calls) : calls[i].awaits = "fetch"}

Watching(calls) == {i \in 1..Len(calls) : calls[i].awaits = "watch"}

\* the tags of the expandTagRow calls at the positions S
TagsAt(calls, S) == {calls[i].tag : i \in {j \in S : calls[j].expand = "tag"}}

\* an expandOtherVersions call is at one of the positions S
OtherAt(calls, S) == \E i \in S : calls[i].expand = "other"

\* the calls from position i on, without those at the positions S
RECURSIVE Remaining(_, _, _)
Remaining(calls, S, i) ==
    IF i > Len(calls) THEN <<>>
    ELSE IF i \in S THEN Remaining(calls, S, i + 1)
    ELSE <<calls[i]>> \o Remaining(calls, S, i + 1)

\* the calls at the positions S leave their await: the `finally` of each
\* clears its indicator, then each marks its row expanded
Resume(S) ==
    /\ loadingTags' = loadingTags \ TagsAt(expandCalls, S)
    /\ expandedTags' = expandedTags \cup TagsAt(expandCalls, S)
    /\ otherVersionsLoading' =
           IF OtherAt(expandCalls, S) THEN FALSE ELSE otherVersionsLoading
    /\ otherVersionsExpanded' =
           IF OtherAt(expandCalls, S) THEN TRUE ELSE otherVersionsExpanded
    /\ expandCalls' = Remaining(expandCalls, S, 1)

\* loadAllVersions entered by a call that has set its indicator: it either
\* awaits the watcher, or sets loadingVersions and awaits the fetch
EnterLoadAllVersions(expand, tag) ==
    /\ Len(expandCalls) < MaxCalls
    /\ IF MustWait(loadingVersions)
       THEN /\ expandCalls' = Append(expandCalls, ExpandCall(expand, tag, "watch"))
            /\ UNCHANGED loadingVersions
       ELSE /\ expandCalls' = Append(expandCalls, ExpandCall(expand, tag, "fetch"))
            /\ loadingVersions' = TRUE

\* expandTagRow(tag), up to its await or to its end
expandTagRow(tag) ==
    /\ IF tag \in expandedTags
       THEN /\ expandedTags' = expandedTags \ {tag}
            /\ UNCHANGED <<loadingTags, expandedMajorGroups, loadingVersions,
                           expandCalls, processedVersions, returnedLists,
                           procVars>>
       ELSE IF hasLoadedAll
       THEN /\ expandedTags' = expandedTags \cup {tag}
            /\ UNCHANGED <<loadingTags, expandedMajorGroups, loadingVersions,
                           expandCalls, processedVersions, returnedLists,
                           procVars>>
       ELSE IF Cached(allVersionsCache)
       THEN /\ returnedLists' = returnedLists \cup {allVersionsCache}
            /\ processedVersions' = allVersionsCache
            /\ processLoadedVersions(Fetched(allVersionsCache))
            /\ UNCHANGED <<distTags, versions, semverFilter>>
            /\ loadingTags' = loadingTags \ {tag}
            /\ expandedTags' = expandedTags \cup {tag}
            /\ UNCHANGED <<loadingVersions, expandCalls>>
       ELSE /\ loadingTags' = loadingTags \cup {tag}
            /\ EnterLoadAllVersions("tag", tag)
            /\ UNCHANGED <<expandedTags, expandedMajorGroups, processedVersions,
                           returnedLists, procVars>>
    /\ UNCHANGED <<otherVersionsExpanded, otherVersionsLoading, allVersionsCache,
                   hasLoadedAll, pageVars, cvVars, dfVars, calcVars, likeVars>>

\* expandOtherVersions(), up to its await or to its end
expandOtherVersions ==
    /\ IF otherVersionsExpanded
       THEN /\ otherVersionsExpanded' = FALSE
            /\ UNCHANGED <<otherVersionsLoading, expandedMajorGroups,
                           loadingVersions, expandCalls, processedVersions,
                           returnedLists, procVars>>
       ELSE IF hasLoadedAll
       THEN /\ otherVersionsExpanded' = TRUE
            /\ UNCHANGED <<otherVersionsLoading, expandedMajorGroups,
                           loadingVersions, expandCalls, processedVersions,
                           returnedLists, procVars>>
       ELSE IF Cached(allVersionsCache)
       THEN /\ returnedLists' = returnedLists \cup {allVersionsCache}
            /\ processedVersions' = allVersionsCache
            /\ processLoadedVersions(Fetched(allVersionsCache))
            /\ UNCHANGED <<distTags, versions, semverFilter>>
            /\ otherVersionsLoading' = FALSE
            /\ otherVersionsExpanded' = TRUE
            /\ UNCHANGED <<loadingVersions, expandCalls>>
       ELSE /\ otherVersionsLoading' = TRUE
            /\ EnterLoadAllVersions("other", "")
            /\ UNCHANGED <<otherVersionsExpanded, expandedMajorGroups,
                           processedVersions, returnedLists, procVars>>
    /\ UNCHANGED <<expandedTags, loadingTags, allVersionsCache, hasLoadedAll,
                   pageVars, cvVars, dfVars, calcVars, likeVars>>

\* fetchAllPackageVersions resolves for the call at position i: the cache is
\* filled, and that call and every call awaiting the watcher resume with the
\* list and process it
FetchSucceeds(i, list) ==
    /\ i \in Fetching(expandCalls)
    /\ allVersionsCache' = list
    /\ hasLoadedAll' = TRUE
    /\ loadingVersions' = FALSE
    /\ returnedLists' = returnedLists \cup {list}
    /\ processedVersions' = list
    /\ processLoadedVersions(Fetched(list))
    /\ Resume({i} \cup Watching(expandCalls))
    /\ UNCHANGED <<distTags, versions, semverFilter>>
    /\ UNCHANGED <<pageVars, cvVars, dfVars, calcVars, likeVars>>

\* fetchAllPackageVersions rejects for the call at position i: its
\* loadAllVersions clears loadingVersions and throws, its expand call logs
\* the error and carries on; the calls awaiting the watcher keep waiting
FetchFails(i) ==
    /\ i \in Fetching(expandCalls)
    /\ loadingVersions' = FALSE
    /\ Resume({i})
    /\ UNCHANGED <<expandedMajorGroups, allVersionsCache, hasLoadedAll,
                   processedVersions, returnedLists, pageVars, cvVars, dfVars,
                   calcVars, likeVars, procVars>>

\* toggleMajorGroup(groupKey), on a group listed under "Other versions"
toggleMajorGroup(groupKey) ==
    /\ \E i \in 1..Len(otherMajorGroups) :
           otherMajorGroups[i].groupKey = groupKey
    /\ expandedMajorGroups' =
           IF groupKey \in expandedMajorGroups
           THEN expandedMajorGroups \ {groupKey}
           ELSE expandedMajorGroups \cup {groupKey}
    /\ UNCHANGED <<expandedTags, loadingTags, otherVersionsExpanded,
                   otherVersionsLoading, allVersionsCache, loadingVersions,
                   hasLoadedAll, expandCalls, processedVersions, returnedLists,
                   pageVars, cvVars, dfVars, calcVars, likeVars, procVars>>

\* the component when setup() returns
VersionsInit ==
    /\ VersionsIdle
    /\ distTags = <<DistTag("latest", V200), DistTag("next", V200beta1)>>
    /\ versions = <<>>
    /\ semverFilter = NoFilter
    /\ allVersions = <<>>
    /\ tagVersions = <<>>
    /\ otherMajorGroups = <<>>
    /\ PageIdle
    /\ pkg = NoPackument
    /\ resolvedVersion = NULL
    /\ cvResult = NULL
    /\ cvPhase = "off"
    /\ dfResult = NoDiff
    /\ dfPhase = "off"
    /\ CalcIdle
    /\ LikeIdle

VersionsNext ==
    \/ \E tag \in VersionTags : expandTagRow(tag)
    \/ expandOtherVersions
    \/ \E i \in 1..Len(expandCalls), list \in VersionLists : FetchSucceeds(i, list)
    \/ \E i \in 1..Len(expandCalls) : FetchFails(i)
    \/ \E groupKey \in GroupKeys : toggleMajorGroup(groupKey)

SpecVersions == VersionsInit /\ [][VersionsNext]_vars

\* at most one request in flight, none once the cache is filled, and every
\* list returned so far is the cached one
SingleFlight(calls, cache, returned) ==
    /\ Cardinality(Fetching(calls)) <= 1
    /\ cache # NoList => Fetching(calls) = {}
    /\ returned \subseteq {cache}

\* C23: across any interleaving of expandTagRow and expandOtherVersions calls
\* at most one fetchAllPackageVersions request is in flight; a call arriving
\* during a load awaits that load instead of fetching; once a load succeeded
\* the cache never changes, no request is issued any more, and every
\* loadAllVersions call returns the cached list.
C23_SingleFlightAndCached ==
    /\ SingleFlight(expandCalls, allVersionsCache, returnedLists)
    /\ [][SingleFlight(expandCalls', allVersionsCache', returnedLists')]_vars
    /\ [][(loadingVersions /\ Len(expandCalls') > Len(expandCalls))
          => expandCalls'[Len(expandCalls')].awaits = "watch"]_vars
    /\ [][allVersionsCache # NoList
          => /\ allVersionsCache' = allVersionsCache
             /\ Fetching(expandCalls') = {}]_vars

\* two calls arrived while the load started by expandTagRow("latest") was
\* in flight: both wait
C23_Witness ==
    /\ loadingVersions
    /\ expandCalls = <<ExpandCall("tag", "latest", "fetch"),
                       ExpandCall("tag", "next", "watch"),
                       ExpandCall("other", "", "watch")>>

\* the load succeeded and all three callers got the one list
C23_WitnessLoaded ==
    /\ allVersionsCache = "listA"
    /\ returnedLists = {"listA"}
    /\ expandCalls = <<>>
    /\ expandedTags = VersionTags
    /\ otherVersionsExpanded
    /\ loadingTags = {}

\* C24: every loadAllVersions call settles once the load it awaits has
\* settled, also a call that arrived during a load that then fails; so no
\* expand call is left awaiting, and no loading indicator (a tag in
\* loadingTags, or otherVersionsLoading) left set, while no request is in
\* flight.
C24_EveryCallSettles ==
    (expandCalls # <<>> \/ loadingTags # {} \/ otherVersionsLoading)
    => Fetching(expandCalls) # {}

\* C25: expandTagRow on an expanded tag removes it from expandedTags and
\* loads nothing; on a collapsed tag with the versions not loaded, the tag
\* is in loadingTags only while the load is in progress, and when it leaves
\* loadingTags it is in expandedTags, whether the load succeeded or failed.
C25_TagRowToggles ==
    /\ [][\A tag \in VersionTags :
            (tag \in expandedTags /\ tag \notin expandedTags')
            => /\ expandCalls' = expandCalls
               /\ loadingVersions' = loadingVersions
               /\ loadingTags' = loadingTags]_vars
    /\ [][\A tag \in VersionTags :
            (tag \in loadingTags /\ tag \notin loadingTags')
            => tag \in expandedTags']_vars
    /\ [][\A tag \in loadingTags' : loadingVersions']_vars

(***************************************************************************)
(* processLoadedVersions on its own: the props are drawn at setup, the load *)
(* resolves with any list of distinct versions, and the function runs once  *)
(* on it (hasLoadedAll keeps a second load from starting).                  *)
(***************************************************************************)

\* the versions fetchAllPackageVersions can list
LoadedVersions == {V090, V0100, V100, V101, V200, V200alpha1, V200beta1}

\* the longest list loaded
MaxLoaded == 3

\* what each dist-tag can point to; NULL for a tag the package does not have
LatestChoices == {NULL, V101, V200}
NextChoices == {NULL, V0100, V100, V200, V200beta1}
BetaChoices == {NULL, V200alpha1, V200beta1}

IsTagged(entry) == entry.version # NULL

\* props.distTags with the tags the package has
DistTagsOf(latest, next, beta) ==
    SelectSeq(<<DistTag("next", next), DistTag("latest", latest),
                DistTag("beta", beta)>>, IsTagged)

ProcInit ==
    /\ \E latest \in LatestChoices, next \in NextChoices, beta \in BetaChoices :
           distTags = DistTagsOf(latest, next, beta)
    /\ versions = <<>>
    /\ semverFilter = NoFilter
    /\ allVersions = <<>>
    /\ tagVersions = <<>>
    /\ otherMajorGroups = <<>>
    /\ VersionsIdle
    /\ PageIdle
    /\ pkg = NoPackument
    /\ resolvedVersion = NULL
    /\ cvResult = NULL
    /\ cvPhase = "off"
    /\ dfResult = NoDiff
    /\ dfPhase = "off"
    /\ CalcIdle
    /\ LikeIdle

\* the load resolved with `loaded` and processLoadedVersions runs on it
VersionsLoaded(loaded) ==
    /\ allVersions = <<>>
    /\ loaded # <<>>
    /\ processLoadedVersions(loaded)
    /\ UNCHANGED <<distTags, versions, semverFilter>>
    /\ UNCHANGED <<expandedTags, loadingTags, otherVersionsExpanded,
                   otherVersionsLoading, allVersionsCache, loadingVersions,
                   hasLoadedAll, expandCalls, processedVersions,
                   returnedLists>>
    /\ UNCHANGED <<pageVars, cvVars, dfVars, calcVars, likeVars>>

ProcNext ==
    \E loaded \in Arrangements(LoadedVersions, MaxLoaded) : VersionsLoaded(loaded)

SpecProc == ProcInit /\ [][ProcNext]_vars

\* the tag rows whose list holds the version
RowsHolding(version) ==
    {i \in 1..Len(tagVersions) : version \in Range(tagVersions[i].versions)}

\* the groups of "Other versions" whose list holds the version
GroupsHolding(version) ==
    {i \in 1..Len(otherMajorGroups) :
        version \in Range(otherMajorGroups[i].versions)}

\* the list names each version once, the higher version first
DescendingSemver(list) ==
    \A i, j \in 1..Len(list) : i < j => compare(list[i], list[j]) = 1

\* "2" before "1" before "0.10" before "0.9"
KeyAbove(a, b) ==
    \/ a[1] > b[1]
    \/ a[1] = b[1] /\ Len(a) = 2 /\ Len(b) = 2 /\ a[2] > b[2]

\* the primary tags of the rows of allTagRows
RowTags == {row.tag : row \in Range(allTagRowsOf(distTags, versions))}

Placement ==
    /\ \A v \in Range(allVersions) :
           \/ RowsHolding(v) # {} /\ GroupsHolding(v) = {}
           \/ /\ RowsHolding(v) = {}
              /\ \E i \in 1..Len(otherMajorGroups) :
                     /\ GroupsHolding(v) = {i}
                     /\ otherMajorGroups[i].groupKey = getVersionGroupKey(v)
    /\ \A i \in 1..Len(tagVersions) :
           /\ tagVersions[i].tag \in RowTags
           /\ DescendingSemver(tagVersions[i].versions)
           /\ \A v \in Range(tagVersions[i].versions) :
                  LET tagVersion == TagVersion(distTags, tagVersions[i].tag)
                  IN  /\ v \in Range(allVersions)
                      /\ getVersionGroupKey(v) = getVersionGroupKey(tagVersion)
                      /\ getPrereleaseChannel(v) =
                             getPrereleaseChannel(tagVersion)
    /\ \A i \in 1..Len(otherMajorGroups) :
           /\ otherMajorGroups[i].versions # <<>>
           /\ DescendingSemver(otherMajorGroups[i].versions)
           /\ Range(otherMajorGroups[i].versions) \subseteq Range(allVersions)
    /\ \A i, j \in 1..Len(otherMajorGroups) :
           i < j => KeyAbove(otherMajorGroups[i].groupKey,
                             otherMajorGroups[j].groupKey)

\* C26: after processLoadedVersions every loaded version is in the list of
\* at least one dist-tag row, whose tag's version has its version group and
\* its prerelease channel, or else in exactly one group of otherMajorGroups,
\* the one keyed by its version group, and never in both; every list is in
\* descending semver order, the groups are in numerically descending order
\* of their keys, and expandedMajorGroups is empty.
C26_LoadedVersionsPlaced ==
    /\ Placement
    /\ expandedMajorGroups = {}

\* two rows of one version group claim 1.0.0, and the two 0.x versions are
\* left to two groups, "0.10" before "0.9"
C26_Witness ==
    /\ allVersions = <<V090, V0100, V100>>
    /\ tagVersions = <<[tag |-> "latest", versions |-> <<V100>>],
                       [tag |-> "next", versions |-> <<V100>>]>>
    /\ otherMajorGroups = <<[groupKey |-> <<0, 10>>, versions |-> <<V0100>>],
                            [groupKey |-> <<0, 9>>, versions |-> <<V090>>]>>

\* a prerelease is kept apart from the stable versions of its group, and a
\* list is put in descending order
C26_WitnessChannels ==
    /\ allVersions = <<V200beta1, V100, V101>>
    /\ distTags = <<DistTag("latest", V101), DistTag("beta", V200alpha1)>>
    /\ tagVersions = <<[tag |-> "beta", versions |-> <<>>],
                       [tag |-> "latest", versions |-> <<V101, V100>>]>>
    /\ otherMajorGroups = <<[groupKey |-> <<2>>, versions |-> <<V200beta1>>]>>

(***************************************************************************)
(* The tag rows shown: the props are drawn at setup, the user types into    *)
(* the semver filter, and visibleTagRows and hiddenTagRows are what the     *)
(* computed values give in each state.  The package has up to MaxOtherTags  *)
(* tags besides latest, the k-th on version 1.k.0; latest is absent, shares *)
(* one of these versions, or has 1.0.0 or the highest version to itself.    *)
(***************************************************************************)

\* the most tags besides latest
MaxOtherTags == 12

\* the tags besides latest
OtherTags ==
    <<"alpha", "beta", "canary", "dev", "edge", "insiders", "lts", "next",
      "nightly", "preview", "rc", "stable", "testing">>

\* the version a tag row is on
RowVersion(k) == Ver(1, k, 0, <<>>)

\* props.distTags: n tags on 1.1.0 .. 1.n.0, and latest on 1.at.0 unless
\* at = -1
TagsOn(n, at) ==
    [k \in 1..n |-> DistTag(OtherTags[k], RowVersion(k))]
        \o (IF at = -1 THEN <<>> ELSE <<DistTag("latest", RowVersion(at))>>)

\* props.versions: the versions 1.0.0 .. 1.(n+1).0, those in `deprecated`
\* with a deprecation notice
SlimVersionsOn(n, deprecated) ==
    [k \in 1..(n + 2) |-> SlimVersion(RowVersion(k - 1), (k - 1) \in deprecated)]

RowsInit ==
    /\ \E n \in 0..MaxOtherTags, at \in -1..(MaxOtherTags + 1) :
       \E dep \in SUBSET {at, 1, n} :
           /\ at <= n + 1
           /\ distTags = TagsOn(n, at)
           /\ versions = SlimVersionsOn(n, dep)
    /\ semverFilter = NoFilter
    /\ allVersions = <<>>
    /\ tagVersions = <<>>
    /\ otherMajorGroups = <<>>
    /\ VersionsIdle
    /\ PageIdle
    /\ pkg = NoPackument
    /\ resolvedVersion = NULL
    /\ cvResult = NULL
    /\ cvPhase = "off"
    /\ dfResult = NoDiff
    /\ dfPhase = "off"
    /\ CalcIdle
    /\ LikeIdle

\* the user empties the semver filter
ClearSemverFilter ==
    /\ semverFilter # NoFilter
    /\ semverFilter' = NoFilter
    /\ UNCHANGED <<distTags, versions, allVersions, tagVersions,
                   otherMajorGroups>>
    /\ UNCHANGED <<pageVars, cvVars, dfVars, calcVars, likeVars, versVars>>

\* the user types the range ">=1.k.0" into the semver filter
TypeSemverFilter(k) ==
    /\ semverFilter # RangeFrom(k)
    /\ semverFilter' = RangeFrom(k)
    /\ UNCHANGED <<distTags, versions, allVersions, tagVersions,
                   otherMajorGroups>>
    /\ UNCHANGED <<pageVars, cvVars, dfVars, calcVars, likeVars, versVars>>

RowsNext ==
    \/ ClearSemverFilter
    \/ \E k \in {0, 1, 2, 3, MaxOtherTags + 1} : TypeSemverFilter(k)

SpecRows == RowsInit /\ [][RowsNext]_vars

\* the rows of allTagRows with primary tag latest that are not deprecated
\* (unless the package is) and whose version the semver filter admits
SurvivingLatestRows ==
    {row \in Range(allTagRows) :
        /\ row.tag = "latest"
        /\ isPackageDeprecated \/ ~row.deprecated
        /\ isFilterActive => row.version \in filteredVersionSet}

\* the rows before a latest row are the first ones that survive, at most
\* nine when latest had to take the tenth place
LatestTakesLastPlace ==
    LET rows == rowsOf(allTagRows, isPackageDeprecated, isFilterActive,
                       filteredVersionSet)
    IN  \A row \in SurvivingLatestRows :
            \/ visibleTagRows = SliceFromStart(rows, MAX_VISIBLE_TAGS)
            \/ /\ Len(rows) > MAX_VISIBLE_TAGS
               /\ visibleTagRows =
                      Append(SliceFromStart(rows, MAX_VISIBLE_TAGS - 1), row)

\* C27: visibleTagRows never has more than MAX_VISIBLE_TAGS rows; a row with
\* primary tag latest that survives the deprecation filter and the semver
\* filter is in visibleTagRows, in the place of the last of the first ten
\* when it is not among them; no row of hiddenTagRows is in visibleTagRows.
C27_VisibleRowsBounded ==
    /\ Len(visibleTagRows) <= MAX_VISIBLE_TAGS
    /\ SurvivingLatestRows \subseteq Range(visibleTagRows)
    /\ LatestTakesLastPlace
    /\ Range(hiddenTagRows) \cap Range(visibleTagRows) = {}

\* eleven rows survive and latest, on the lowest version, is the eleventh:
\* it takes the tenth place and the row it replaced is hidden
C27_Witness ==
    /\ Len(allTagRows) = 11
    /\ ~isFilterActive
    /\ Len(visibleTagRows) = MAX_VISIBLE_TAGS
    /\ visibleTagRows[MAX_VISIBLE_TAGS].tag = "latest"
    /\ visibleTagRows[MAX_VISIBLE_TAGS].version = RowVersion(0)
    /\ Len(hiddenTagRows) = 1
    /\ hiddenTagRows[1].version = RowVersion(1)

\* the filter ">=1.2.0" leaves eleven of twelve rows and latest, on 1.2.0,
\* is the eleventh: it takes the tenth place, and of the two rows not shown
\* the one the filter admits is hidden
C27_WitnessFiltered ==
    /\ semverFilter = RangeFrom(2)
    /\ Len(allTagRows) = 12
    /\ Len(visibleTagRows) = MAX_VISIBLE_TAGS
    /\ visibleTagRows[MAX_VISIBLE_TAGS].tag = "latest"
    /\ visibleTagRows[MAX_VISIBLE_TAGS].version = RowVersion(2)
    /\ Len(hiddenTagRows) = 1
    /\ hiddenTagRows[1].version = RowVersion(3)

\* a deprecated row is left out of a package that is not deprecated, and
\* latest is still brought in
C27_WitnessDeprecated ==
    /\ ~isFilterActive
    /\ ~isPackageDeprecated
    /\ Len(allTagRows) = 12
    /\ allTagRows[1].deprecated
    /\ Len(visibleTagRows) = MAX_VISIBLE_TAGS
    /\ visibleTagRows[1] = allTagRows[2]
    /\ visibleTagRows[MAX_VISIBLE_TAGS].tag = "latest"
    /\ visibleTagRows[MAX_VISIBLE_TAGS].version = RowVersion(0)
    /\ Len(hiddenTagRows) = 2

====
